---- MODULE Spec2Model ----
(***************************************************************************)
(* Map-reduce summarization pipeline of html_pdf_summarizer.               *)
(*                                                                         *)
(*   - DocumentSummarizer (src/llm.py): the conversation history           *)
(*     self.messages and the calls chat / chat_stream / reset_conversation *)
(*     / summarize_content / merge_summaries / merge_summaries_stream.     *)
(*   - WebArticleSummarizer (src/html_summary.py): count_tokens,           *)
(*     count_tokens_batch, split_texts_by_tokens and the generator         *)
(*     summarize_texts_stream, with get_summary_sync's join of its output. *)
(*                                                                         *)
(* Texts are TLA+ strings; Len is the Python len.  TLA+ strings are ASCII, *)
(* so the fixed Chinese literals of the source (prompt prefixes, messages) *)
(* are written as ASCII literals, each with the source literal beside it.  *)
(* The external model (ollama.chat) is the environment: every call either  *)
(* raises or answers with any string of Responses; a streamed call         *)
(* delivers any number of chunks (up to MaxStreamChunks) and may raise     *)
(* before the first chunk or after any chunk.                              *)
(*                                                                         *)
(* Specifications:                                                         *)
(*   Spec      one run of summarize_texts_stream on one summarizer         *)
(*   FairSpec  the same run, which keeps executing while a step is enabled *)
(*   ConcSpec  two requests on the cached summarizer's DocumentSummarizer  *)
(*   GroupSpec split_texts_by_tokens applied to bounded inputs             *)
(*   PortSpec  any sequence of port calls on one DocumentSummarizer        *)
(*   SplitSpec split_text_by_tokens applied to bounded inputs; a document  *)
(*             text is a sequence of one-character strings                 *)
(***************************************************************************)
EXTENDS Integers, Sequences, FiniteSets, TLC

VARIABLES
    token_limit,        \* WebArticleSummarizer.token_limit
    texts,              \* argument of summarize_texts_stream / split_texts_by_tokens
    pc,                 \* position of the generator
    i,                  \* number of texts the map loop has processed
    summaries,          \* local list `summaries`
    chunks,             \* local list `chunks` (the groups of this generation)
    j,                  \* number of groups the reduce loop has processed
    new_summaries,      \* local list `new_summaries`
    messages,           \* DocumentSummarizer.messages
    sent,               \* `messages` argument of the most recent ollama.chat call
    prompt,             \* user_input of the most recent chat / chat_stream call
    lastOp,             \* kind of the most recent port call
    nSummarize,         \* summarize_content calls issued so far
    nMerge,             \* merge_summaries calls issued so far (saturating)
    nStream,            \* merge_summaries_stream calls issued so far
    assistant_response, \* chat_stream's accumulator
    nChunks,            \* chunks of the model stream consumed so far
    out,                \* fragments yielded to the caller so far
    threads,            \* ConcSpec: the requests running on the shared instance
    full_text,          \* the document text (get_summary's content / full_text,
                        \* split_text_by_tokens's text), a sequence of characters
    map_log,            \* the map step's calls so far: content passed, value returned
    task_type,          \* get_summary's task_type argument
    actual_limit,       \* get_summary's local actual_limit
    fetched,            \* outcome of get_summary's extraction: "none" before it,
                        \* then "raised", "empty" or "ok"
    max_chunk_length,   \* PDFSummarizer.max_chunk_length
    chunk_size,         \* chunk_size argument of chunk_and_summarize(_stream)
    variant,            \* which variant runs: "plain" (chunk_and_summarize,
                        \* get_summary) or "stream" (chunk_and_summarize_stream,
                        \* get_summary_stream); "stream_replay" is the stream
                        \* variant run on the responses of a plain run
    returned,           \* value returned by chunk_and_summarize
    plain_calls,        \* prompts chunk_and_summarize sent to the model
    script,             \* the model's responses to the run of chunk_and_summarize
    detected_language,  \* local detected_language of get_summary_stream and of
                        \* youtube_summary_flow
    stages,             \* stages the YouTube run has started, each "started",
                        \* "ok" or "failed"
    nChat,              \* number of direct chat / chat_stream calls on the port
    chat_gen            \* generator of a chat_stream call made directly on the
                        \* TranscriptSummarizer: where it is, its argument and
                        \* its local assistant_response

vars == <<token_limit, texts, pc, i, summaries, chunks, j, new_summaries,
          messages, sent, prompt, lastOp, nSummarize, nMerge, nStream,
          assistant_response, nChunks, out, threads, full_text, map_log,
          task_type, actual_limit, fetched, max_chunk_length, chunk_size,
          variant, returned, plain_calls, script, detected_language, stages,
          nChat, chat_gen, chat_gen>>

\* the variables of TranscriptSummarizer and of YouTubeSummarizer
yt_vars == <<variant, returned, plain_calls, script, detected_language, stages>>

\* the variables of the drivers' get_summary around the map and reduce steps
run_vars == <<task_type, actual_limit, fetched, max_chunk_length, chunk_size, yt_vars,
              nChat, chat_gen, chat_gen>>

-----------------------------------------------------------------------------
(* Bounds of the model *)

\* largest token_limit a run is constructed with
MaxTokenLimit == 2
\* longest input list of summarize_texts_stream
MaxTexts == 2
\* longest input list of split_texts_by_tokens in GroupSpec
MaxGroupTexts == 4
\* largest budget of split_texts_by_tokens in GroupSpec
MaxBudget == 3
\* most chunks the model stream delivers
MaxStreamChunks == 2
\* value at which the merge-call counter stops counting
MergeCap == 3
\* port calls of a sequence in PortSpec
MaxPortCalls == 2
\* longest document text of split_text_by_tokens in SplitSpec
MaxTextLen == 8
\* largest budget of split_text_by_tokens in SplitSpec
MaxSplitBudget == 2
\* chunks handed to the PDF driver's map loop
MaxPdfChunks == 3
\* longest content get_recommended_token_limit is called for
MaxTextLength == 15001
\* longest text handed to the PDF and transcript chunkers, largest chunk size
MaxChunkTextLen == 6
MaxChunkSize == 3
\* longest transcript
MaxTranscriptLen == 4
\* longest text extracted from a PDF in a get_summary run
MaxPdfTextLen == 3

-----------------------------------------------------------------------------
(* Python values *)

\* Python None and a returned str, kept apart
None == <<>>
Some(s) == <<s>>

\* no chat_stream generator made directly on the TranscriptSummarizer is open
NoDirect == [at |-> "none", user_input |-> "", assistant_response |-> "", n |-> 0]

\* `if summary:` -- None and "" are falsy
Truthy(r) == r # None /\ r[1] # ""

\* mutant: a falsy result is kept as an empty summary
Collect_KeepsEmpty(ss, ret) == Append(ss, IF ret = None THEN "" ELSE ret[1])

\* if summary: summaries.append(summary)
Collect(ss, ret) == IF Truthy(ret) THEN Append(ss, ret[1]) ELSE ss

RECURSIVE JoinWith(_, _)
\* sep.join(strs)
JoinWith(sep, strs) ==
    IF strs = <<>> THEN ""
    ELSE IF Len(strs) = 1 THEN strs[1]
    ELSE strs[1] \o sep \o JoinWith(sep, Tail(strs))

Min(a, b) == IF a < b THEN a ELSE b

-----------------------------------------------------------------------------
(* Inputs and the environment's answers *)

\* texts handed to summarize_texts_stream (0 and 1 token)
InputTexts == {"t1", "text2"}

\* answers of the model: empty, 1 token, 2 tokens, 3 tokens
Responses == {"", "sum", "summar", "summary-9"}

\* str(e) of an exception raised by ollama.chat
ExcText == "connection refused"

\* content of the chunks of a model stream
Fragments == {"fr", "ag"}

\* outcome of a non-streamed ollama.chat: it raises (None) or answers
ChatOutcomes == {None} \cup {Some(r) : r \in Responses}

\* texts handed to split_texts_by_tokens in GroupSpec (0, 1, 2 and 4 tokens)
GroupTexts == {"a", "bcd", "efghij", "klmnopqrstuv"}

RECURSIVE SeqsUpTo(_, _)
\* all sequences over S of length <= n
SeqsUpTo(S, n) ==
    IF n = 0 THEN {<<>>}
    ELSE LET shorter == SeqsUpTo(S, n - 1)
         IN  shorter \cup {Append(s, x) : s \in {q \in shorter : Len(q) = n - 1}, x \in S}

-----------------------------------------------------------------------------
(* WebArticleSummarizer: token estimate and grouping *)

\* count_tokens: len(text) // 3
count_tokens(text) == Len(text) \div 3

RECURSIVE count_tokens_batch(_)
\* count_tokens_batch: sum(count_tokens(text) for text in texts)
count_tokens_batch(ts) ==
    IF ts = <<>> THEN 0
    ELSE count_tokens(Head(ts)) + count_tokens_batch(Tail(ts))

\* mutant: the test forgets the tokens already in the group
StartsNewGroup_IgnoresCurrent(current_tokens, text_tokens, max_tokens, current_group) ==
    text_tokens > max_tokens /\ current_group # <<>>

\* if current_tokens + text_tokens > max_tokens and current_group:
StartsNewGroup(current_tokens, text_tokens, max_tokens, current_group) ==
    current_tokens + text_tokens > max_tokens /\ current_group # <<>>

\* mutant: the trailing group is not flushed
FlushGroup_Dropped(groups, current_group) == groups

\* if current_group: groups.append(current_group)
FlushGroup(groups, current_group) ==
    IF current_group # <<>> THEN Append(groups, current_group) ELSE groups

RECURSIVE GroupLoop(_, _, _, _, _, _)
\* the `for text in texts` loop of split_texts_by_tokens, from index k on
GroupLoop(ts, k, max_tokens, groups, current_group, current_tokens) ==
    IF k > Len(ts) THEN FlushGroup(groups, current_group)
    ELSE LET text == ts[k]
             text_tokens == count_tokens(text)
         IN  IF StartsNewGroup(current_tokens, text_tokens, max_tokens, current_group)
             THEN GroupLoop(ts, k + 1, max_tokens,
                            Append(groups, current_group), <<text>>, text_tokens)
             ELSE GroupLoop(ts, k + 1, max_tokens,
                            groups, Append(current_group, text),
                            current_tokens + text_tokens)

\* split_texts_by_tokens(texts, max_tokens)
split_texts_by_tokens(ts, max_tokens) == GroupLoop(ts, 1, max_tokens, <<>>, <<>>, 0)

-----------------------------------------------------------------------------
(* DocumentSummarizer *)

\* self.system_prompt (src/llm.py:11-20, a Chinese literal)
SystemPrompt == "system: you are a document summarizer"

Msg(role, content) == [role |-> role, content |-> content]

\* mutant: the history is kept
reset_conversation_Kept(msgs) == msgs

\* reset_conversation: self.messages = [system]
reset_conversation(msgs) == <<Msg("system", SystemPrompt)>>

\* prompt of summarize_content (src/llm.py:83, a Chinese literal)
SummarizePrompt(content) == "Summarize the following content:\n\n" \o content

\* prompt of merge_summaries / merge_summaries_stream (src/llm.py:89-90, 96-97)
MergePrompt(ss) == "Merge the following summaries:\n\n" \o JoinWith("\n\n", ss)

\* chat(user_input) with the model's outcome: the history passed to the model,
\* the history left behind and the value returned
chat(msgs, user_input, outcome) ==
    LET withUser == Append(msgs, Msg("user", user_input))
    IN  IF outcome = None
        THEN [sent |-> withUser, messages |-> withUser, ret |-> None]
        ELSE [sent |-> withUser,
              messages |-> Append(withUser, Msg("assistant", outcome[1])),
              ret |-> outcome]

\* summarize_content(content)
summarize_content(msgs, content, outcome) ==
    chat(reset_conversation(msgs), SummarizePrompt(content), outcome)

\* merge_summaries(summaries)
merge_summaries(msgs, ss, outcome) ==
    chat(reset_conversation(msgs), MergePrompt(ss), outcome)

\* the message chat_stream yields on an exception (src/llm.py:70)
StreamError(e) == "stream error: " \o e

-----------------------------------------------------------------------------
(* WebArticleSummarizer.summarize_texts_stream *)

\* yield "沒有文字可供摘要" (src/html_summary.py:317)
NoTextMsg == "no text to summarize"

\* yield "無法生成摘要" (src/html_summary.py:329)
NoSummaryMsg == "cannot generate a summary"

\* the threads of ConcSpec, absent in the other specifications
NoThreads == <<>>

\* no TranscriptSummarizer and no YouTubeSummarizer is running
IdleTranscript ==
    /\ variant = "none"
    /\ returned = None
    /\ plain_calls = <<>>
    /\ script = [map |-> <<>>, final |-> <<>>]
    /\ detected_language = "none"
    /\ stages = <<>>

\* no get_summary is running: summarize_texts_stream, the port or a splitter is
\* called directly
IdleRun ==
    /\ IdleTranscript
    /\ nChat = 0
    /\ chat_gen = NoDirect
    /\ task_type = "none"
    /\ actual_limit = 0
    /\ fetched = "none"
    /\ max_chunk_length = 0
    /\ chunk_size = 0

Init ==
    /\ token_limit \in 1..MaxTokenLimit
    /\ texts \in SeqsUpTo(InputTexts, MaxTexts)
    /\ pc = "start"
    /\ i = 0
    /\ summaries = <<>>
    /\ chunks = <<>>
    /\ j = 0
    /\ new_summaries = <<>>
    /\ messages = <<Msg("system", SystemPrompt)>>
    /\ sent = <<>>
    /\ prompt = ""
    /\ lastOp = "none"
    /\ nSummarize = 0
    /\ nMerge = 0
    /\ nStream = 0
    /\ assistant_response = ""
    /\ nChunks = 0
    /\ out = <<>>
    /\ full_text = <<>>
    /\ map_log = <<>>
    /\ IdleRun
    /\ threads = NoThreads

\* if not texts: yield ...; return   (lines 316-318)
Begin ==
    /\ pc = "start"
    /\ IF texts = <<>>
       THEN /\ out' = Append(out, NoTextMsg)
            /\ pc' = "Done"
       ELSE /\ out' = out
            /\ pc' = "map"
    /\ UNCHANGED <<run_vars, full_text, map_log, token_limit, texts, i, summaries, chunks, j, new_summaries,
                   messages, sent, prompt, lastOp, nSummarize, nMerge, nStream,
                   assistant_response, nChunks, threads>>

\* mutant: the map loop yields a progress message for each text
MapStep_YieldsProgress(outcome) ==
    /\ pc = "map"
    /\ i < Len(texts)
    /\ LET r == summarize_content(messages, texts[i + 1], outcome)
       IN  /\ messages' = r.messages
           /\ sent' = r.sent
           /\ prompt' = SummarizePrompt(texts[i + 1])
           /\ summaries' = Collect(summaries, r.ret)
           /\ map_log' = Append(map_log, [content |-> texts[i + 1], ret |-> r.ret])
    /\ lastOp' = "summarize"
    /\ nSummarize' = nSummarize + 1
    /\ i' = i + 1
    /\ out' = Append(out, "progress")
    /\ UNCHANGED <<run_vars, full_text, token_limit, texts, pc, chunks, j, new_summaries, nMerge,
                   nStream, assistant_response, nChunks, threads>>

\* one pass of the map loop: generate_summary(text) and `if summary:` (lines 323-326)
MapStep(outcome) ==
    /\ pc = "map"
    /\ i < Len(texts)
    /\ LET r == summarize_content(messages, texts[i + 1], outcome)
       IN  /\ messages' = r.messages
           /\ sent' = r.sent
           /\ prompt' = SummarizePrompt(texts[i + 1])
           /\ summaries' = Collect(summaries, r.ret)
           /\ map_log' = Append(map_log, [content |-> texts[i + 1], ret |-> r.ret])
    /\ lastOp' = "summarize"
    /\ nSummarize' = nSummarize + 1
    /\ i' = i + 1
    /\ UNCHANGED <<run_vars, full_text, token_limit, texts, pc, chunks, j, new_summaries, nMerge,
                   nStream, assistant_response, nChunks, out, threads>>

\* mutant: the run goes on to the reduction without looking at summaries
MapEnd_NoCheck ==
    /\ pc = "map"
    /\ i = Len(texts)
    /\ out' = out
    /\ pc' = "while"
    /\ UNCHANGED <<run_vars, full_text, map_log, token_limit, texts, i, summaries, chunks, j, new_summaries,
                   messages, sent, prompt, lastOp, nSummarize, nMerge, nStream,
                   assistant_response, nChunks, threads>>

\* after the map loop: if not summaries: yield ...; return   (lines 328-330)
MapEnd ==
    /\ pc = "map"
    /\ i = Len(texts)
    /\ IF summaries = <<>>
       THEN /\ out' = Append(out, NoSummaryMsg)
            /\ pc' = "Done"
       ELSE /\ out' = out
            /\ pc' = "while"
    /\ UNCHANGED <<run_vars, full_text, map_log, token_limit, texts, i, summaries, chunks, j, new_summaries,
                   messages, sent, prompt, lastOp, nSummarize, nMerge, nStream,
                   assistant_response, nChunks, threads>>

\* while count_tokens_batch(summaries) > token_limit: chunks = split...  (lines 333-336)
WhileCheck ==
    /\ pc = "while"
    /\ IF count_tokens_batch(summaries) > token_limit
       THEN /\ chunks' = split_texts_by_tokens(summaries, token_limit)
            /\ new_summaries' = <<>>
            /\ j' = 0
            /\ pc' = "reduce"
       ELSE /\ UNCHANGED <<chunks, new_summaries, j>>
            /\ pc' = "final"
    /\ UNCHANGED <<run_vars, full_text, map_log, token_limit, texts, i, summaries, messages, sent, prompt,
                   lastOp, nSummarize, nMerge, nStream, assistant_response,
                   nChunks, out, threads>>

\* one pass of the reduce loop: reduce_summaries(chunk) and `if summary:` (lines 337-340)
ReduceStep(outcome) ==
    /\ pc = "reduce"
    /\ j < Len(chunks)
    /\ LET r == merge_summaries(messages, chunks[j + 1], outcome)
       IN  /\ messages' = r.messages
           /\ sent' = r.sent
           /\ prompt' = MergePrompt(chunks[j + 1])
           /\ new_summaries' = Collect(new_summaries, r.ret)
    /\ lastOp' = "merge"
    /\ nMerge' = Min(nMerge + 1, MergeCap)
    /\ j' = j + 1
    /\ UNCHANGED <<run_vars, full_text, map_log, token_limit, texts, pc, i, summaries, chunks, nSummarize,
                   nStream, assistant_response, nChunks, out, threads>>

\* after the reduce loop: if not new_summaries: break; summaries = new_summaries
\* (lines 342-345)
ReduceEnd ==
    /\ pc = "reduce"
    /\ j = Len(chunks)
    /\ IF new_summaries = <<>>
       THEN /\ summaries' = summaries
            /\ pc' = "final"
       ELSE /\ summaries' = new_summaries
            /\ pc' = "while"
    /\ UNCHANGED <<run_vars, full_text, map_log, token_limit, texts, i, chunks, j, new_summaries, messages,
                   sent, prompt, lastOp, nSummarize, nMerge, nStream,
                   assistant_response, nChunks, out, threads>>

\* reduce_summaries_stream(summaries): merge_summaries_stream resets the history,
\* chat_stream appends the prompt and opens the model stream
\* (html_summary.py:348, 309-312; llm.py:94-99, 49-58)
FinalMerge ==
    /\ pc = "final"
    /\ messages' = Append(reset_conversation(messages), Msg("user", MergePrompt(summaries)))
    /\ sent' = messages'
    /\ prompt' = MergePrompt(summaries)
    /\ lastOp' = "merge_stream"
    /\ nStream' = nStream + 1
    /\ assistant_response' = ""
    /\ nChunks' = 0
    /\ pc' = "stream"
    /\ UNCHANGED <<run_vars, full_text, map_log, token_limit, texts, i, summaries, chunks, j, new_summaries,
                   nSummarize, nMerge, out, threads>>

\* a chunk with content: assistant_response += content; yield content (llm.py:59-63)
StreamFragment(content) ==
    /\ pc = "stream"
    /\ nChunks < MaxStreamChunks
    /\ assistant_response' = assistant_response \o content
    /\ out' = Append(out, content)
    /\ nChunks' = nChunks + 1
    /\ UNCHANGED <<run_vars, full_text, map_log, token_limit, texts, pc, i, summaries, chunks, j, new_summaries,
                   messages, sent, prompt, lastOp, nSummarize, nMerge, nStream,
                   threads>>

\* a chunk without 'message'/'content' is skipped (llm.py:60)
StreamSkip ==
    /\ pc = "stream"
    /\ nChunks < MaxStreamChunks
    /\ nChunks' = nChunks + 1
    /\ UNCHANGED <<run_vars, full_text, map_log, token_limit, texts, pc, i, summaries, chunks, j, new_summaries,
                   messages, sent, prompt, lastOp, nSummarize, nMerge, nStream,
                   assistant_response, out, threads>>

\* the stream ends: the reply is appended to the history (llm.py:66)
StreamEnd ==
    /\ pc = "stream"
    /\ messages' = Append(messages, Msg("assistant", assistant_response))
    /\ pc' = "Done"
    /\ UNCHANGED <<run_vars, full_text, map_log, token_limit, texts, i, summaries, chunks, j, new_summaries,
                   sent, prompt, lastOp, nSummarize, nMerge, nStream,
                   assistant_response, nChunks, out, threads>>

\* the model call or the stream raises: yield the error message (llm.py:68-70)
StreamFail ==
    /\ pc = "stream"
    /\ out' = Append(out, StreamError(ExcText))
    /\ pc' = "Done"
    /\ UNCHANGED <<run_vars, full_text, map_log, token_limit, texts, i, summaries, chunks, j, new_summaries,
                   messages, sent, prompt, lastOp, nSummarize, nMerge, nStream,
                   assistant_response, nChunks, threads>>

Next ==
    \/ Begin
    \/ \E outcome \in ChatOutcomes : MapStep(outcome)
    \/ MapEnd
    \/ WhileCheck
    \/ \E outcome \in ChatOutcomes : ReduceStep(outcome)
    \/ ReduceEnd
    \/ FinalMerge
    \/ \E content \in Fragments : StreamFragment(content)
    \/ StreamSkip
    \/ StreamEnd
    \/ StreamFail

Spec == Init /\ [][Next]_vars

\* the generator is driven to exhaustion by its consumer and every model call
\* returns or raises: the run takes a step whenever one is enabled
FairSpec == Init /\ [][Next]_vars /\ WF_vars(Next)

\* get_summary_sync: "".join(summary_parts)
get_summary_sync == JoinWith("", out)

-----------------------------------------------------------------------------
(* Two requests on one cached summarizer (frontend.init_summarizers):       *)
(* both run summarize_content on the same DocumentSummarizer, each in its   *)
(* own script thread.  A thread switch can fall between any two of          *)
(* reset_conversation's assignment, chat's append, the model call and the   *)
(* append of the reply.                                                     *)

Threads == {1, 2}

\* the content each request summarizes
ContentOf(t) == IF t = 1 THEN "document A" ELSE "document B"

\* the model's answer to a request
ReplyTo(t) == IF t = 1 THEN "summary of A" ELSE "summary of B"

InitConc ==
    /\ token_limit = MaxTokenLimit
    /\ texts = <<>>
    /\ pc = "threads"
    /\ i = 0
    /\ summaries = <<>>
    /\ chunks = <<>>
    /\ j = 0
    /\ new_summaries = <<>>
    /\ messages = <<Msg("system", SystemPrompt)>>
    /\ sent = <<>>
    /\ prompt = ""
    /\ lastOp = "none"
    /\ nSummarize = 0
    /\ nMerge = 0
    /\ nStream = 0
    /\ assistant_response = ""
    /\ nChunks = 0
    /\ out = <<>>
    /\ full_text = <<>>
    /\ map_log = <<>>
    /\ IdleRun
    /\ threads = [t \in Threads |-> [pc |-> "summarize_content", sent |-> <<>>, ret |-> None]]

\* summarize_content: self.reset_conversation()   (llm.py:84, 72-75)
T_Reset(t) ==
    /\ pc = "threads"
    /\ threads[t].pc = "summarize_content"
    /\ messages' = reset_conversation(messages)
    /\ threads' = [threads EXCEPT ![t].pc = "chat"]
    /\ UNCHANGED <<run_vars, full_text, map_log, token_limit, texts, pc, i, summaries, chunks, j, new_summaries,
                   sent, prompt, lastOp, nSummarize, nMerge, nStream,
                   assistant_response, nChunks, out>>

\* chat: self.messages.append(user)   (llm.py:27)
T_Append(t) ==
    /\ pc = "threads"
    /\ threads[t].pc = "chat"
    /\ messages' = Append(messages, Msg("user", SummarizePrompt(ContentOf(t))))
    /\ threads' = [threads EXCEPT ![t].pc = "ollama.chat"]
    /\ UNCHANGED <<run_vars, full_text, map_log, token_limit, texts, pc, i, summaries, chunks, j, new_summaries,
                   sent, prompt, lastOp, nSummarize, nMerge, nStream,
                   assistant_response, nChunks, out>>

\* chat: ollama.chat(messages=self.messages) sends the request   (llm.py:30-34)
T_Call(t) ==
    /\ pc = "threads"
    /\ threads[t].pc = "ollama.chat"
    /\ threads' = [threads EXCEPT ![t].pc = "reply", ![t].sent = messages]
    /\ nSummarize' = nSummarize + 1
    /\ UNCHANGED <<run_vars, full_text, map_log, token_limit, texts, pc, i, summaries, chunks, j, new_summaries,
                   messages, sent, prompt, lastOp, nMerge, nStream,
                   assistant_response, nChunks, out>>

\* chat: the call answers and the reply is appended, or it raises   (llm.py:36-45)
T_Return(t, ok) ==
    /\ pc = "threads"
    /\ threads[t].pc = "reply"
    /\ IF ok
       THEN /\ messages' = Append(messages, Msg("assistant", ReplyTo(t)))
            /\ threads' = [threads EXCEPT ![t].pc = "returned", ![t].ret = Some(ReplyTo(t))]
       ELSE /\ messages' = messages
            /\ threads' = [threads EXCEPT ![t].pc = "returned", ![t].ret = None]
    /\ UNCHANGED <<run_vars, full_text, map_log, token_limit, texts, pc, i, summaries, chunks, j, new_summaries,
                   sent, prompt, lastOp, nSummarize, nMerge, nStream,
                   assistant_response, nChunks, out>>

NextConc ==
    \/ \E t \in Threads : T_Reset(t)
    \/ \E t \in Threads : T_Append(t)
    \/ \E t \in Threads : T_Call(t)
    \/ \E t \in Threads, ok \in BOOLEAN : T_Return(t, ok)

ConcSpec == InitConc /\ [][NextConc]_vars

-----------------------------------------------------------------------------
(* split_texts_by_tokens applied to every bounded input *)

InitGroup ==
    /\ token_limit \in (-1)..MaxBudget
    /\ texts \in SeqsUpTo(GroupTexts, MaxGroupTexts)
    /\ pc = "call"
    /\ i = 0
    /\ summaries = <<>>
    /\ chunks = <<>>
    /\ j = 0
    /\ new_summaries = <<>>
    /\ messages = <<Msg("system", SystemPrompt)>>
    /\ sent = <<>>
    /\ prompt = ""
    /\ lastOp = "none"
    /\ nSummarize = 0
    /\ nMerge = 0
    /\ nStream = 0
    /\ assistant_response = ""
    /\ nChunks = 0
    /\ out = <<>>
    /\ full_text = <<>>
    /\ map_log = <<>>
    /\ IdleRun
    /\ threads = NoThreads

\* groups = split_texts_by_tokens(texts, max_tokens)
CallSplitTexts ==
    /\ pc = "call"
    /\ chunks' = split_texts_by_tokens(texts, token_limit)
    /\ pc' = "returned"
    /\ UNCHANGED <<run_vars, full_text, map_log, token_limit, texts, i, summaries, j, new_summaries, messages,
                   sent, prompt, lastOp, nSummarize, nMerge, nStream,
                   assistant_response, nChunks, out, threads>>

NextGroup == CallSplitTexts

GroupSpec == InitGroup /\ [][NextGroup]_vars

-----------------------------------------------------------------------------
(* Any sequence of summarize_content, merge_summaries, merge_summaries_stream, *)
(* chat and chat_stream calls made by one thread on one DocumentSummarizer     *)
(* (the cached instance serves one run after another).  A streamed merge is    *)
(* FinalMerge followed by the stream actions above.                            *)

\* contents passed to summarize_content, chat and chat_stream
PortContents == {"t1"}

\* lists passed to merge_summaries / merge_summaries_stream
PortSummaries == {<<"sum">>, <<"sum", "summar">>}

\* the generator of the open stream is suspended at the yield of llm.py:63,
\* whatever the content it yielded (an empty content is yielded too)
Suspended == pc = "yield"

\* the thread can make a call: no stream is open ("port"), the generator of the
\* open stream has not been started ("final" for merge_summaries_stream,
\* "chat_new" for chat_stream), it is suspended at the yield of llm.py:63, or it
\* has yielded the error message of llm.py:70 or ended ("Done").  While the
\* generator runs inside next() ("stream") the thread is in it.  One stream is
\* open at a time.
CanCall == pc \in {"port", "final", "chat_new", "Done"} \/ Suspended

\* content of the chunks of a model stream in PortSpec
PortFragments == {"", "fr"}

\* most chunks with content the model stream of a call made directly on a
\* summarizer delivers (PortSpec, TranscriptSpec)
MaxPortChunks == 1

InitPort ==
    /\ token_limit = MaxTokenLimit
    /\ texts = <<>>
    /\ pc = "port"
    /\ i = 0
    /\ summaries = <<>>
    /\ chunks = <<>>
    /\ j = 0
    /\ new_summaries = <<>>
    /\ messages = <<Msg("system", SystemPrompt)>>
    /\ sent = <<>>
    /\ prompt = ""
    /\ lastOp = "none"
    /\ nSummarize = 0
    /\ nMerge = 0
    /\ nStream = 0
    /\ assistant_response = ""
    /\ nChunks = 0
    /\ out = <<>>
    /\ full_text = <<>>
    /\ map_log = <<>>
    /\ IdleRun
    /\ threads = NoThreads

\* summarize_content(content)   (llm.py:81-85)
PortSummarize(content, outcome) ==
    /\ CanCall
    /\ nSummarize + nMerge + nStream + nChat < MaxPortCalls
    /\ LET r == summarize_content(messages, content, outcome)
       IN  /\ messages' = r.messages
           /\ sent' = r.sent
    /\ prompt' = SummarizePrompt(content)
    /\ lastOp' = "summarize"
    /\ nSummarize' = nSummarize + 1
    /\ UNCHANGED <<run_vars, full_text, map_log, token_limit, texts, pc, i, summaries, chunks, j, new_summaries,
                   nMerge, nStream, assistant_response, nChunks, out, threads>>

\* merge_summaries(summaries)   (llm.py:87-92)
PortMerge(ss, outcome) ==
    /\ CanCall
    /\ nSummarize + nMerge + nStream + nChat < MaxPortCalls
    /\ LET r == merge_summaries(messages, ss, outcome)
       IN  /\ messages' = r.messages
           /\ sent' = r.sent
    /\ prompt' = MergePrompt(ss)
    /\ lastOp' = "merge"
    /\ nMerge' = nMerge + 1
    /\ UNCHANGED <<run_vars, full_text, map_log, token_limit, texts, pc, i, summaries, chunks, j, new_summaries,
                   nSummarize, nStream, assistant_response, nChunks, out, threads>>

\* the caller starts iterating merge_summaries_stream(summaries)   (llm.py:94)
PortMergeStream(ss) ==
    /\ pc = "port"
    /\ nSummarize + nMerge + nStream + nChat < MaxPortCalls
    /\ summaries' = ss
    /\ pc' = "final"
    /\ UNCHANGED <<run_vars, full_text, map_log, token_limit, texts, i, chunks, j, new_summaries, messages, sent,
                   prompt, lastOp, nSummarize, nMerge, nStream, assistant_response,
                   nChunks, out, threads>>

\* chat(user_input) called directly: the prompt is appended to the history the
\* earlier calls left behind, without reset_conversation   (llm.py:26-45)
PortChat(user_input, outcome) ==
    /\ CanCall
    /\ nSummarize + nMerge + nStream + nChat < MaxPortCalls
    /\ LET r == chat(messages, user_input, outcome)
       IN  /\ messages' = r.messages
           /\ sent' = r.sent
    /\ prompt' = user_input
    /\ lastOp' = "chat"
    /\ nChat' = nChat + 1
    /\ chat_gen' = chat_gen
    /\ UNCHANGED <<task_type, actual_limit, fetched, max_chunk_length, chunk_size,
                   yt_vars, full_text, map_log, token_limit, texts, pc, i, summaries,
                   chunks, j, new_summaries, nSummarize, nMerge, nStream,
                   assistant_response, nChunks, out, threads>>

\* chat_stream(user_input) called directly: the generator is created with its
\* argument, no line of it has run   (llm.py:47)
PortChatStream(user_input) ==
    /\ pc = "port"
    /\ nSummarize + nMerge + nStream + nChat < MaxPortCalls
    /\ texts' = <<user_input>>
    /\ nChat' = nChat + 1
    /\ chat_gen' = chat_gen
    /\ pc' = "chat_new"
    /\ UNCHANGED <<task_type, actual_limit, fetched, max_chunk_length, chunk_size,
                   yt_vars, full_text, map_log, token_limit, i, summaries, chunks, j,
                   new_summaries, messages, sent, prompt, lastOp, nSummarize, nMerge,
                   nStream, assistant_response, nChunks, out, threads>>

\* the first next() of the chat_stream generator: the prompt is appended
\* without reset_conversation and the model is called   (llm.py:49-58)
PortChatStreamStart ==
    /\ pc = "chat_new"
    /\ messages' = Append(messages, Msg("user", texts[1]))
    /\ sent' = messages'
    /\ prompt' = texts[1]
    /\ lastOp' = "chat_stream"
    /\ assistant_response' = ""
    /\ nChunks' = 0
    /\ pc' = "stream"
    /\ UNCHANGED <<run_vars, full_text, map_log, token_limit, texts, i, summaries,
                   chunks, j, new_summaries, nSummarize, nMerge, nStream, out, threads>>

\* inside next(): a chunk with content: assistant_response += content;
\* yield content, where the generator is suspended   (llm.py:59-63)
PortStreamFragment(content) ==
    /\ pc = "stream"
    /\ nChunks < MaxPortChunks
    /\ assistant_response' = assistant_response \o content
    /\ out' = Append(out, content)
    /\ nChunks' = nChunks + 1
    /\ pc' = "yield"
    /\ UNCHANGED <<run_vars, full_text, map_log, token_limit, texts, i, summaries,
                   chunks, j, new_summaries, messages, sent, prompt, lastOp,
                   nSummarize, nMerge, nStream, threads>>

\* the consumer calls next() on the suspended generator: the for loop of
\* llm.py:59 goes on
PortResume ==
    /\ Suspended
    /\ pc' = "stream"
    /\ UNCHANGED <<run_vars, full_text, map_log, token_limit, texts, i, summaries,
                   chunks, j, new_summaries, messages, sent, prompt, lastOp,
                   nSummarize, nMerge, nStream, assistant_response, nChunks, out,
                   threads>>

\* reset_conversation() called directly   (llm.py:72-75)
PortReset ==
    /\ CanCall
    /\ messages' = reset_conversation(messages)
    /\ UNCHANGED <<run_vars, full_text, map_log, token_limit, texts, pc, i, summaries,
                   chunks, j, new_summaries, sent, prompt, lastOp, nSummarize, nMerge,
                   nStream, assistant_response, nChunks, out, threads>>

\* the consumer drops the generator before its first next(), or closes it while
\* it is suspended at the yield of llm.py:63: line 66 never runs
PortStreamClose ==
    /\ pc \in {"final", "chat_new"} \/ Suspended
    /\ pc' = "port"
    /\ UNCHANGED <<run_vars, full_text, map_log, token_limit, texts, i, summaries,
                   chunks, j, new_summaries, messages, sent, prompt, lastOp,
                   nSummarize, nMerge, nStream, assistant_response, nChunks, out,
                   threads>>

\* the generator has ended, or is dropped after the error message of llm.py:70
PortContinue ==
    /\ pc = "Done"
    /\ pc' = "port"
    /\ UNCHANGED <<run_vars, full_text, map_log, token_limit, texts, i, summaries, chunks, j, new_summaries,
                   messages, sent, prompt, lastOp, nSummarize, nMerge, nStream,
                   assistant_response, nChunks, out, threads>>

NextPort ==
    \/ \E content \in PortContents, outcome \in ChatOutcomes : PortSummarize(content, outcome)
    \/ \E ss \in PortSummaries, outcome \in ChatOutcomes : PortMerge(ss, outcome)
    \/ \E ss \in PortSummaries : PortMergeStream(ss)
    \/ \E user_input \in PortContents, outcome \in ChatOutcomes : PortChat(user_input, outcome)
    \/ \E user_input \in PortContents : PortChatStream(user_input)
    \/ PortChatStreamStart
    \/ PortReset
    \/ PortStreamClose
    \/ FinalMerge
    \/ \E content \in PortFragments : PortStreamFragment(content)
    \/ PortResume
    \/ StreamSkip
    \/ StreamEnd
    \/ StreamFail
    \/ PortContinue

PortSpec == InitPort /\ [][NextPort]_vars

-----------------------------------------------------------------------------
(* WebArticleSummarizer.split_text_by_tokens, on sequences of characters *)

\* characters of a document text: a letter, the period, the newline, the space
Chars == {"a", ".", "\n", " "}

\* whitespace of str.strip() and str.split(): the characters c with c.isspace().
\* The space, the newline, the tab, the carriage return and the form feed are
\* written with their escapes; the vertical tab \x0b, the separators \x1c-\x1f,
\* the next-line character \x85, the no-break space \xa0 and the ogham space
\* U+1680 are written as the characters themselves.  The remaining ones
\* (U+2000-U+200A, U+2028, U+2029, U+202F, U+205F, U+3000) are no characters of
\* a string of this module, so no text of the model holds one.
IsSpace(c) == c \in {" ", "\n", "\t", "\r", "\f",
                     "", "", "", "", "",
                     "", " ", " "}

RECURSIVE lstrip(_)
lstrip(str) == IF str # <<>> /\ IsSpace(Head(str)) THEN lstrip(Tail(str)) ELSE str

RECURSIVE rstrip(_)
rstrip(str) ==
    IF str # <<>> /\ IsSpace(str[Len(str)])
    THEN rstrip(SubSeq(str, 1, Len(str) - 1))
    ELSE str

\* str.strip()
strip(str) == rstrip(lstrip(str))

RECURSIVE SplitFrom(_, _, _)
\* the pieces of str.split(sep) that start at index k or later: the piece up to
\* the leftmost occurrence of sep at or after k, then the pieces behind it
SplitFrom(str, sep, k) ==
    LET hits == {n \in k..(Len(str) - Len(sep) + 1) :
                    SubSeq(str, n, n + Len(sep) - 1) = sep}
    IN  IF hits = {} THEN <<SubSeq(str, k, Len(str))>>
        ELSE LET n == CHOOSE h \in hits : \A m \in hits : h <= m
             IN  <<SubSeq(str, k, n - 1)>> \o SplitFrom(str, sep, n + Len(sep))

\* str.split(sep)
str_split(str, sep) == SplitFrom(str, sep, 1)

\* the separators the splitter cuts on and joins with
ParagraphSep == <<"\n", "\n">>
Period == <<".">>
Space == <<" ">>

RECURSIVE SentencesOf(_)
\* [s.strip() + '.' for s in pieces if s.strip()]
SentencesOf(pieces) ==
    IF pieces = <<>> THEN <<>>
    ELSE IF strip(Head(pieces)) # <<>>
         THEN <<strip(Head(pieces)) \o Period>> \o SentencesOf(Tail(pieces))
         ELSE SentencesOf(Tail(pieces))

\* sentences = [...]   (line 246)
Sentences(paragraph) == SentencesOf(str_split(paragraph, Period))

\* mutant: a piece that exactly fills the budget starts a new chunk
Overflows_AtBudget(current_tokens, piece_tokens, max_tokens) ==
    current_tokens + piece_tokens >= max_tokens

\* if current_tokens + sent_tokens > max_tokens / current_tokens + para_tokens > max_tokens
Overflows(current_tokens, piece_tokens, max_tokens) ==
    current_tokens + piece_tokens > max_tokens

\* if current_chunk: chunks.append(current_chunk.strip())   (lines 240-241, 251-252, 260-261)
CloseChunk(cs, current_chunk) ==
    IF current_chunk # <<>> THEN Append(cs, strip(current_chunk)) ELSE cs

\* mutant: the trailing chunk is not flushed
FlushChunk_Dropped(cs, current_chunk) == cs

\* after the loop: if current_chunk: chunks.append(current_chunk.strip())   (lines 268-269)
FlushChunk(cs, current_chunk) ==
    IF current_chunk # <<>> THEN Append(cs, strip(current_chunk)) ELSE cs

\* one pass of the accumulation: the piece starts a new chunk or joins the
\* current one behind the separator   (lines 250-257 and 259-266)
Accumulate(st, piece, sep, max_tokens) ==
    LET piece_tokens == count_tokens(piece)
    IN  IF Overflows(st.current_tokens, piece_tokens, max_tokens)
        THEN [chunks |-> CloseChunk(st.chunks, st.current_chunk),
              current_chunk |-> piece,
              current_tokens |-> piece_tokens]
        ELSE [chunks |-> st.chunks,
              current_chunk |-> IF st.current_chunk # <<>>
                                THEN st.current_chunk \o sep \o piece
                                ELSE piece,
              current_tokens |-> st.current_tokens + piece_tokens]

RECURSIVE SentenceLoop(_, _, _)
\* for sentence in sentences   (lines 247-257)
SentenceLoop(st, sentences, max_tokens) ==
    IF sentences = <<>> THEN st
    ELSE SentenceLoop(Accumulate(st, Head(sentences), Space, max_tokens),
                      Tail(sentences), max_tokens)

\* the body of `for paragraph in paragraphs`   (lines 232-266)
ParagraphStep(st, raw, max_tokens) ==
    LET paragraph == strip(raw)
    IN  IF paragraph = <<>> THEN st
        ELSE IF count_tokens(paragraph) > max_tokens
             THEN SentenceLoop([chunks |-> CloseChunk(st.chunks, st.current_chunk),
                                current_chunk |-> IF st.current_chunk # <<>> THEN <<>>
                                                  ELSE st.current_chunk,
                                current_tokens |-> IF st.current_chunk # <<>> THEN 0
                                                   ELSE st.current_tokens],
                               Sentences(paragraph), max_tokens)
             ELSE Accumulate(st, paragraph, ParagraphSep, max_tokens)

RECURSIVE ParagraphLoop(_, _, _)
\* for paragraph in paragraphs   (line 231)
ParagraphLoop(st, paragraphs, max_tokens) ==
    IF paragraphs = <<>> THEN st
    ELSE ParagraphLoop(ParagraphStep(st, Head(paragraphs), max_tokens),
                       Tail(paragraphs), max_tokens)

\* split_text_by_tokens(text, max_tokens)
split_text_by_tokens(str, max_tokens) ==
    LET st == ParagraphLoop([chunks |-> <<>>, current_chunk |-> <<>>, current_tokens |-> 0],
                            str_split(str, ParagraphSep), max_tokens)
    IN  FlushChunk(st.chunks, st.current_chunk)

InitSplit ==
    /\ token_limit \in 1..MaxSplitBudget
    /\ full_text \in SeqsUpTo(Chars, MaxTextLen)
    /\ texts = <<>>
    /\ pc = "split_call"
    /\ i = 0
    /\ summaries = <<>>
    /\ chunks = <<>>
    /\ j = 0
    /\ new_summaries = <<>>
    /\ messages = <<Msg("system", SystemPrompt)>>
    /\ sent = <<>>
    /\ prompt = ""
    /\ lastOp = "none"
    /\ nSummarize = 0
    /\ nMerge = 0
    /\ nStream = 0
    /\ assistant_response = ""
    /\ nChunks = 0
    /\ out = <<>>
    /\ map_log = <<>>
    /\ IdleRun
    /\ threads = NoThreads

\* text_chunks = self.split_text_by_tokens(content, actual_limit)
CallSplitText ==
    /\ pc = "split_call"
    /\ chunks' = split_text_by_tokens(full_text, token_limit)
    /\ pc' = "split_returned"
    /\ UNCHANGED <<run_vars, full_text, map_log, token_limit, texts, i, summaries, j,
                   new_summaries, messages, sent, prompt, lastOp, nSummarize, nMerge,
                   nStream, assistant_response, nChunks, out, threads>>

NextSplit == CallSplitText

SplitSpec == InitSplit /\ [][NextSplit]_vars

-----------------------------------------------------------------------------
(* PDFSummarizer.get_summary from the map loop on (src/pdf_summary.py:129-146) *)

\* return "摘要過程中發生錯誤，無法生成摘要" (src/pdf_summary.py:139)
PdfNoSummaryMsg == "error while summarizing, cannot generate a summary"

\* summarize_chunk(chunk): summarize_content(chunk), a falsy result becomes ""
\* (lines 87-90; chat catches every exception, so lines 91-93 are not reached)
summarize_chunk(msgs, chunk, outcome) ==
    LET r == summarize_content(msgs, chunk, outcome)
    IN  [sent |-> r.sent, messages |-> r.messages,
         ret |-> IF Truthy(r.ret) THEN r.ret ELSE Some("")]

\* the state at line 130: chunks = split_text(full_text) of a non-empty text
\* (held in texts), summaries = []
InitPdf ==
    /\ token_limit = 0
    /\ texts \in SeqsUpTo(InputTexts, MaxPdfChunks) \ {<<>>}
    /\ pc = "pdf_map"
    /\ i = 0
    /\ summaries = <<>>
    /\ chunks = <<>>
    /\ j = 0
    /\ new_summaries = <<>>
    /\ messages = <<Msg("system", SystemPrompt)>>
    /\ sent = <<>>
    /\ prompt = ""
    /\ lastOp = "none"
    /\ nSummarize = 0
    /\ nMerge = 0
    /\ nStream = 0
    /\ assistant_response = ""
    /\ nChunks = 0
    /\ out = <<>>
    /\ full_text = <<>>
    /\ map_log = <<>>
    /\ IdleRun
    /\ threads = NoThreads

\* one pass of the map loop: summarize_chunk(chunk) and `if summary:` (lines 131-135)
PdfMapStep(outcome) ==
    /\ pc = "pdf_map"
    /\ i < Len(texts)
    /\ LET r == summarize_chunk(messages, texts[i + 1], outcome)
       IN  /\ messages' = r.messages
           /\ sent' = r.sent
           /\ prompt' = SummarizePrompt(texts[i + 1])
           /\ summaries' = Collect(summaries, r.ret)
           /\ map_log' = Append(map_log, [content |-> texts[i + 1], ret |-> r.ret])
    /\ lastOp' = "summarize"
    /\ nSummarize' = nSummarize + 1
    /\ i' = i + 1
    /\ UNCHANGED <<run_vars, full_text, token_limit, texts, pc, chunks, j, new_summaries, nMerge,
                   nStream, assistant_response, nChunks, out, threads>>

\* len(summaries) == 0: the failure message; == 1: summaries[0]   (lines 138-141)
PdfReturn ==
    /\ pc = "pdf_map"
    /\ i = Len(texts)
    /\ Len(summaries) <= 1
    /\ out' = <<IF Len(summaries) = 0 THEN PdfNoSummaryMsg ELSE summaries[1]>>
    /\ pc' = "pdf_done"
    /\ UNCHANGED <<run_vars, full_text, map_log, token_limit, texts, i, summaries, chunks, j, new_summaries,
                   messages, sent, prompt, lastOp, nSummarize, nMerge, nStream,
                   assistant_response, nChunks, threads>>

\* several summaries: merge_summaries(summaries), "\n\n".join(summaries) when
\* it yields nothing   (lines 142-146)
PdfMerge(outcome) ==
    /\ pc = "pdf_map"
    /\ i = Len(texts)
    /\ Len(summaries) > 1
    /\ LET r == merge_summaries(messages, summaries, outcome)
       IN  /\ messages' = r.messages
           /\ sent' = r.sent
           /\ prompt' = MergePrompt(summaries)
           /\ out' = <<IF Truthy(r.ret) THEN r.ret[1] ELSE JoinWith("\n\n", summaries)>>
    /\ lastOp' = "merge"
    /\ nMerge' = Min(nMerge + 1, MergeCap)
    /\ pc' = "pdf_done"
    /\ UNCHANGED <<run_vars, full_text, map_log, token_limit, texts, i, summaries, chunks, j, new_summaries,
                   nSummarize, nStream, assistant_response, nChunks, threads>>

NextPdf ==
    \/ \E outcome \in ChatOutcomes : PdfMapStep(outcome)
    \/ PdfReturn
    \/ \E outcome \in ChatOutcomes : PdfMerge(outcome)

\* a run of either driver: the web driver's summarize_texts_stream or the PDF
\* driver's get_summary
InitDriver == Init \/ InitPdf

NextDriver == Next \/ NextPdf

DriverSpec == InitDriver /\ [][NextDriver]_vars

-----------------------------------------------------------------------------
(* summarize_texts_stream after a map step that kept 10 summaries of one token
   each, with token_limit = 3 (src/html_summary.py:332-349) *)

\* the text handed to each of the 10 map calls and the summary each returned
ScenarioText == "t1"

ScenarioSummary == "sum"

\* the state at line 332: the map loop has run over 10 texts and every call
\* answered ScenarioSummary
InitScenario ==
    /\ token_limit = 3
    /\ texts = [k \in 1..10 |-> ScenarioText]
    /\ pc = "while"
    /\ i = 10
    /\ summaries = [k \in 1..10 |-> ScenarioSummary]
    /\ chunks = <<>>
    /\ j = 0
    /\ new_summaries = <<>>
    /\ messages = summarize_content(<<Msg("system", SystemPrompt)>>, ScenarioText,
                                    Some(ScenarioSummary)).messages
    /\ sent = summarize_content(<<Msg("system", SystemPrompt)>>, ScenarioText,
                                Some(ScenarioSummary)).sent
    /\ prompt = SummarizePrompt(ScenarioText)
    /\ lastOp = "summarize"
    /\ nSummarize = 10
    /\ nMerge = 0
    /\ nStream = 0
    /\ assistant_response = ""
    /\ nChunks = 0
    /\ out = <<>>
    /\ full_text = <<>>
    /\ map_log = [k \in 1..10 |-> [content |-> ScenarioText, ret |-> Some(ScenarioSummary)]]
    /\ IdleRun
    /\ threads = NoThreads

NextScenario ==
    \/ WhileCheck
    \/ \E outcome \in ChatOutcomes : ReduceStep(outcome)
    \/ ReduceEnd
    \/ FinalMerge
    \/ \E content \in Fragments : StreamFragment(content)
    \/ StreamSkip
    \/ StreamEnd
    \/ StreamFail

ScenarioSpec == InitScenario /\ [][NextScenario]_vars

\* the generator is driven to exhaustion and every model call returns or raises
FairScenarioSpec == InitScenario /\ [][NextScenario]_vars /\ WF_vars(NextScenario)

-----------------------------------------------------------------------------
(* The chunkers of the PDF driver and of the transcript driver, on sequences
   of characters (src/pdf_summary.py:58-85, src/transcript_llm.py:163-180) *)

\* characters of a PDF text or a transcript: a letter, the space, the newline
ChunkChars == {"a", " ", "\n"}

\* para[i:i+n] with i counted from 0
Slice(str, k, n) == SubSeq(str, k + 1, Min(k + n, Len(str)))

RECURSIVE SliceLoop(_, _, _, _)
\* for i in range(0, len(para), max): chunks.append(para[i:i+max].strip())
\* (pdf_summary.py:76-77)
SliceLoop(cs, para, k, n) ==
    IF k >= Len(para) THEN cs
    ELSE SliceLoop(Append(cs, strip(Slice(para, k, n))), para, k + n, n)

\* the body of `for para in paragraphs`, on st = [chunks, current]
\* (pdf_summary.py:68-80)
SplitTextStep(st, para, n) ==
    IF Len(st.current) + Len(para) + 2 <= n
    THEN [chunks |-> st.chunks, current |-> st.current \o para \o ParagraphSep]
    ELSE LET closed == IF st.current # <<>> THEN Append(st.chunks, strip(st.current))
                       ELSE st.chunks
         IN  IF Len(para) > n
             THEN [chunks |-> SliceLoop(closed, para, 0, n), current |-> <<>>]
             ELSE [chunks |-> closed, current |-> para \o ParagraphSep]

RECURSIVE SplitTextLoop(_, _, _)
\* for para in paragraphs   (pdf_summary.py:67)
SplitTextLoop(st, paragraphs, n) ==
    IF paragraphs = <<>> THEN st
    ELSE SplitTextLoop(SplitTextStep(st, Head(paragraphs), n), Tail(paragraphs), n)

\* PDFSummarizer.split_text(text) with self.max_chunk_length = n
split_text(str, n) ==
    LET st == SplitTextLoop([chunks |-> <<>>, current |-> <<>>],
                            str_split(str, ParagraphSep), n)
    IN  IF st.current # <<>> THEN Append(st.chunks, strip(st.current)) ELSE st.chunks

RECURSIVE WordsFrom(_, _, _)
\* str.split() from index k on, with the word `cur` under construction: runs
\* of whitespace separate the words and give no empty word
WordsFrom(str, k, cur) ==
    IF k > Len(str) THEN (IF cur # <<>> THEN <<cur>> ELSE <<>>)
    ELSE IF IsSpace(str[k])
         THEN (IF cur # <<>> THEN <<cur>> ELSE <<>>) \o WordsFrom(str, k + 1, <<>>)
         ELSE WordsFrom(str, k + 1, Append(cur, str[k]))

\* transcript.split()   (transcript_llm.py:165)
words_of(str) == WordsFrom(str, 1, <<>>)

\* ' '.join(current_chunk)
JoinWords(ws) ==
    LET RECURSIVE J(_)
        J(rest) == IF rest = <<>> THEN <<>>
                   ELSE IF Len(rest) = 1 THEN rest[1]
                   ELSE rest[1] \o Space \o J(Tail(rest))
    IN  J(ws)

\* the body of `for word in words`, on st = [chunks, current_chunk, current_length]
\* (transcript_llm.py:170-177)
WordStep(st, word, n) ==
    LET word_length == Len(word) + 1
    IN  IF st.current_length + word_length > n
        THEN [chunks |-> Append(st.chunks, JoinWords(st.current_chunk)),
              current_chunk |-> <<word>>,
              current_length |-> word_length]
        ELSE [chunks |-> st.chunks,
              current_chunk |-> Append(st.current_chunk, word),
              current_length |-> st.current_length + word_length]

RECURSIVE WordLoop(_, _, _)
\* for word in words   (transcript_llm.py:169)
WordLoop(st, ws, n) ==
    IF ws = <<>> THEN st
    ELSE WordLoop(WordStep(st, Head(ws), n), Tail(ws), n)

\* the chunks of chunk_and_summarize / chunk_and_summarize_stream for a
\* transcript longer than chunk_size   (transcript_llm.py:164-180, 218-234)
transcript_chunks(str, n) ==
    LET st == WordLoop([chunks |-> <<>>, current_chunk |-> <<>>, current_length |-> 0],
                       words_of(str), n)
    IN  IF st.current_chunk # <<>> THEN Append(st.chunks, JoinWords(st.current_chunk))
        ELSE st.chunks

\* TranscriptSummarizer.system_prompt   (src/transcript_llm.py:12-79)
TsSystemPrompt == "system: you are a transcript summarizer"

\* a call of one of the two chunkers: full_text is the text, the chunk size is
\* in max_chunk_length (PDF) or in chunk_size (transcript); the history is the
\* one of the PDF driver's DocumentSummarizer or of the TranscriptSummarizer
InitChunk ==
    /\ IdleTranscript
    /\ nChat = 0
    /\ chat_gen = NoDirect
    /\ full_text \in SeqsUpTo(ChunkChars, MaxChunkTextLen)
    /\ \/ /\ pc = "pdf_split_call"
          /\ max_chunk_length \in 1..MaxChunkSize
          /\ chunk_size = 0
          /\ messages = <<Msg("system", SystemPrompt)>>
       \/ /\ pc = "ts_chunk_call"
          /\ chunk_size \in 1..MaxChunkSize
          /\ max_chunk_length = 0
          /\ Len(full_text) > chunk_size
          /\ messages = <<Msg("system", TsSystemPrompt)>>
    /\ token_limit = 0
    /\ task_type = "none"
    /\ actual_limit = 0
    /\ fetched = "none"
    /\ texts = <<>>
    /\ i = 0
    /\ summaries = <<>>
    /\ chunks = <<>>
    /\ j = 0
    /\ new_summaries = <<>>
    /\ sent = <<>>
    /\ prompt = ""
    /\ lastOp = "none"
    /\ nSummarize = 0
    /\ nMerge = 0
    /\ nStream = 0
    /\ assistant_response = ""
    /\ nChunks = 0
    /\ out = <<>>
    /\ map_log = <<>>
    /\ threads = NoThreads

\* chunks = self.split_text(full_text)   (pdf_summary.py:126)
CallSplitTextPdf ==
    /\ pc = "pdf_split_call"
    /\ chunks' = split_text(full_text, max_chunk_length)
    /\ pc' = "pdf_split_returned"
    /\ UNCHANGED <<run_vars, full_text, map_log, token_limit, texts, i, summaries, j,
                   new_summaries, messages, sent, prompt, lastOp, nSummarize, nMerge,
                   nStream, assistant_response, nChunks, out, threads>>

\* the word-accumulation loop of chunk_and_summarize(_stream)
\* (transcript_llm.py:164-180)
CallTranscriptChunks ==
    /\ pc = "ts_chunk_call"
    /\ chunks' = transcript_chunks(full_text, chunk_size)
    /\ pc' = "ts_chunk_returned"
    /\ UNCHANGED <<run_vars, full_text, map_log, token_limit, texts, i, summaries, j,
                   new_summaries, messages, sent, prompt, lastOp, nSummarize, nMerge,
                   nStream, assistant_response, nChunks, out, threads>>

NextChunk == CallSplitTextPdf \/ CallTranscriptChunks

ChunkSpec == InitChunk /\ [][NextChunk]_vars

RECURSIVE StrOf(_, _, _)
\* the str made of the characters lo..hi of a sequence of characters
StrOf(str, lo, hi) ==
    IF lo > hi THEN ""
    ELSE IF lo = hi THEN str[lo]
    ELSE LET mid == (lo + hi) \div 2
         IN  StrOf(str, lo, mid) \o StrOf(str, mid + 1, hi)

\* a sequence of characters as the str handed to the port
Str(str) == StrOf(str, 1, Len(str))

-----------------------------------------------------------------------------
(* TranscriptSummarizer.chunk_and_summarize and chunk_and_summarize_stream
   (src/transcript_llm.py:81-253) *)

\* prompt of summarize_transcript(_stream): f"請為以下影片逐字稿撰寫結構化的摘要：\n\n{transcript}"
\* (lines 137, 143)
TsSummarizePrompt(transcript) ==
    "Write a structured summary of the following transcript:\n\n" \o transcript

\* merged = "\n\n".join(summaries); prompt = f"以下是影片不同部分的摘要，...：\n\n{merged}"
\* (lines 195-196, 249-250)
TsMergePrompt(ss) ==
    "Merge the summaries of the parts of the video:\n\n" \o JoinWith("\n\n", ss)

\* yield f"串流錯誤: {str(e)}"   (line 127)
TsStreamError(e) == "stream error: " \o e

\* the model's response to the last call of a run: the fragments it streams and
\* whether it then raises; without stream=True the same response is the
\* concatenation of the fragments, or the exception
FinalResponses ==
    {[fails |-> f, frags |-> fs] :
        f \in BOOLEAN, fs \in SeqsUpTo(Fragments, MaxStreamChunks)}

\* the model's responses to the per-chunk calls
TsMapOutcomes == {None, Some(""), Some("sum")}

\* reset_conversation(); chat(user_input): the history left behind and the
\* value returned   (lines 85-103, 129-133)
ts_chat(user_input, resp) ==
    LET withUser == <<Msg("system", TsSystemPrompt), Msg("user", user_input)>>
    IN  IF resp.fails
        THEN [messages |-> withUser, ret |-> None]
        ELSE [messages |-> Append(withUser, Msg("assistant", JoinWith("", resp.frags))),
              ret |-> Some(JoinWith("", resp.frags))]

\* reset_conversation(); chat_stream(user_input): the history left behind and
\* the fragments yielded   (lines 105-133)
ts_chat_stream(user_input, resp) ==
    LET withUser == <<Msg("system", TsSystemPrompt), Msg("user", user_input)>>
    IN  IF resp.fails
        THEN [messages |-> withUser, yielded |-> Append(resp.frags, TsStreamError(ExcText))]
        ELSE [messages |-> Append(withUser, Msg("assistant", JoinWith("", resp.frags))),
              yielded |-> resp.frags]

\* the transcripts of the model
Transcripts == SeqsUpTo({"a", " "}, MaxTranscriptLen)

\* the responses the model may give to the last call: any when
\* chunk_and_summarize runs or the stream variant runs alone, the recorded one
\* when the stream variant runs against the responses of chunk_and_summarize
FinalChoices ==
    IF variant = "stream_replay"
    THEN {script.final[k] : k \in DOMAIN script.final}
    ELSE FinalResponses

\* the same for the call on chunk number k
MapChoices(k) ==
    IF variant = "stream_replay"
    THEN {script.map[n] : n \in DOMAIN script.map \cap {k}}
    ELSE TsMapOutcomes

\* the last call of a run with prompt p.  In chunk_and_summarize: chat
\* (lines 139, 198).  In chunk_and_summarize_stream: chat_stream (lines 145-146,
\* 252-253), a generator that runs up to its first yield: the first fragment
\* (line 121), or the error message when the model call raises at once (line
\* 127); a stream that ends without a fragment ends the generator (line 123)
FinalCall(p, resp) ==
    /\ prompt' = p
    /\ sent' = Append(sent, p)
    /\ script' = [script EXCEPT !.final = <<resp>>]
    /\ IF variant = "plain"
       THEN /\ messages' = ts_chat(p, resp).messages
            /\ returned' = ts_chat(p, resp).ret
            /\ pc' = "ts_plain_done"
            /\ UNCHANGED <<out, assistant_response, nChunks>>
       ELSE /\ messages' = IF resp.frags = <<>> /\ ~resp.fails
                            THEN ts_chat_stream(p, resp).messages
                            ELSE <<Msg("system", TsSystemPrompt), Msg("user", p)>>
            /\ returned' = returned
            /\ IF resp.frags = <<>>
               THEN /\ out' = IF resp.fails THEN Append(out, TsStreamError(ExcText)) ELSE out
                    /\ assistant_response' = ""
                    /\ nChunks' = 0
                    /\ pc' = "ts_stream_done"
               ELSE /\ out' = Append(out, resp.frags[1])
                    /\ assistant_response' = resp.frags[1]
                    /\ nChunks' = 1
                    /\ pc' = "ts_streaming"

\* the variables the steps of a running stream leave alone
ts_stream_rest == <<nChat, chat_gen, variant, returned, plain_calls, script, detected_language,
                    stages, full_text, chunk_size, max_chunk_length, token_limit,
                    task_type, actual_limit, fetched, texts, i, summaries, chunks, j,
                    new_summaries, sent, prompt, lastOp, nSummarize, nMerge, nStream,
                    map_log, threads>>

\* the consumer asks for the next fragment and the model has one:
\* assistant_response += content; yield content   (lines 117-121)
TsStreamFragment ==
    /\ pc = "ts_streaming"
    /\ nChunks < Len(script.final[1].frags)
    /\ assistant_response' = assistant_response \o script.final[1].frags[nChunks + 1]
    /\ out' = Append(out, script.final[1].frags[nChunks + 1])
    /\ nChunks' = nChunks + 1
    /\ UNCHANGED <<ts_stream_rest, messages, pc>>

\* the consumer asks for the next fragment and the stream is over: the reply is
\* appended to the history and the generator ends   (line 123)
TsStreamEnd ==
    /\ pc = "ts_streaming"
    /\ nChunks = Len(script.final[1].frags)
    /\ ~script.final[1].fails
    /\ messages' = Append(messages, Msg("assistant", assistant_response))
    /\ pc' = "ts_stream_done"
    /\ UNCHANGED <<ts_stream_rest, assistant_response, nChunks, out>>

\* the consumer asks for the next fragment and the stream raises: the error
\* message is yielded, nothing is appended to the history   (lines 125-127)
TsStreamFail ==
    /\ pc = "ts_streaming"
    /\ nChunks = Len(script.final[1].frags)
    /\ script.final[1].fails
    /\ out' = Append(out, TsStreamError(ExcText))
    /\ pc' = "ts_stream_done"
    /\ UNCHANGED <<ts_stream_rest, assistant_response, nChunks, messages>>

\* the consumer stops iterating: the generator is closed where it is suspended,
\* at the yield of line 121, and line 123 never runs
TsStreamClose ==
    /\ pc = "ts_streaming"
    /\ pc' = "ts_stream_done"
    /\ UNCHANGED <<ts_stream_rest, assistant_response, nChunks, messages, out>>

\* chunk_and_summarize(_stream)(transcript, chunk_size) on a transcript and a
\* fresh TranscriptSummarizer
InitTranscript ==
    /\ nChat = 0
    /\ chat_gen = NoDirect
    /\ variant = "plain"
    /\ returned = None
    /\ plain_calls = <<>>
    /\ script = [map |-> <<>>, final |-> <<>>]
    /\ detected_language = "none"
    /\ stages = <<>>
    /\ full_text \in Transcripts
    /\ chunk_size \in 1..MaxChunkSize
    /\ pc = "ts_start"
    /\ max_chunk_length = 0
    /\ token_limit = 0
    /\ task_type = "none"
    /\ actual_limit = 0
    /\ fetched = "none"
    /\ texts = <<>>
    /\ i = 0
    /\ summaries = <<>>
    /\ chunks = <<>>
    /\ j = 0
    /\ new_summaries = <<>>
    /\ messages = <<Msg("system", TsSystemPrompt)>>
    /\ sent = <<>>
    /\ prompt = ""
    /\ lastOp = "none"
    /\ nSummarize = 0
    /\ nMerge = 0
    /\ nStream = 0
    /\ assistant_response = ""
    /\ nChunks = 0
    /\ out = <<>>
    /\ map_log = <<>>
    /\ threads = NoThreads

\* if len(transcript) <= chunk_size: summarize the transcript directly
\* (lines 160-161, 212-215)
TsShort(resp) ==
    /\ pc = "ts_start"
    /\ Len(full_text) <= chunk_size
    /\ FinalCall(TsSummarizePrompt(Str(full_text)), resp)
    /\ nSummarize' = nSummarize + 1
    /\ UNCHANGED <<nChat, chat_gen, variant, plain_calls, detected_language, stages, full_text, chunk_size,
                   max_chunk_length, token_limit, task_type, actual_limit, fetched,
                   texts, i, summaries, chunks, j, new_summaries, lastOp, nMerge,
                   nStream, map_log, threads>>

\* the transcript is longer than chunk_size: split it in chunks, summaries = []
\* (lines 164-184, 218-238)
TsSplit ==
    /\ pc = "ts_start"
    /\ Len(full_text) > chunk_size
    /\ LET cs == transcript_chunks(full_text, chunk_size)
       IN  texts' = [k \in 1..Len(cs) |-> Str(cs[k])]
    /\ i' = 0
    /\ summaries' = <<>>
    /\ pc' = "ts_map"
    /\ UNCHANGED <<nChat, chat_gen, yt_vars, full_text, chunk_size, max_chunk_length, token_limit,
                   task_type, actual_limit, fetched, chunks, j, new_summaries,
                   messages, sent, prompt, lastOp, nSummarize, nMerge, nStream,
                   assistant_response, nChunks, out, map_log, threads>>

\* one iteration of the per-chunk loop: summary = self.summarize_transcript(chunk);
\* if summary: summaries.append(summary)   (lines 185-189, 239-243)
TsMapStep(outcome) ==
    /\ pc = "ts_map"
    /\ i < Len(texts)
    /\ LET p == TsSummarizePrompt(texts[i + 1])
           resp == [fails |-> outcome = None,
                    frags |-> IF outcome = None THEN <<>> ELSE outcome]
       IN  /\ prompt' = p
           /\ sent' = Append(sent, p)
           /\ messages' = ts_chat(p, resp).messages
           /\ summaries' = Collect(summaries, ts_chat(p, resp).ret)
    /\ script' = IF variant = "stream_replay"
                 THEN script
                 ELSE [script EXCEPT !.map = Append(script.map, outcome)]
    /\ i' = i + 1
    /\ nSummarize' = nSummarize + 1
    /\ UNCHANGED <<nChat, chat_gen, variant, returned, plain_calls, detected_language, stages, full_text,
                   chunk_size, max_chunk_length, token_limit, task_type, actual_limit,
                   fetched, texts, chunks, j, new_summaries, lastOp, nMerge, nStream,
                   assistant_response, nChunks, out, map_log, threads, pc>>

\* if len(summaries) == 1   (lines 192, 246)
SingleSummary(ss) == Len(ss) = 1

\* after the loop, one summary: return summaries[0] / yield summaries[0]
\* (lines 192-193, 246-247)
TsReturnSingle ==
    /\ pc = "ts_map"
    /\ i = Len(texts)
    /\ SingleSummary(summaries)
    /\ IF variant = "plain"
       THEN /\ returned' = Some(summaries[1])
            /\ pc' = "ts_plain_done"
            /\ out' = out
       ELSE /\ out' = Append(out, summaries[1])
            /\ pc' = "ts_stream_done"
            /\ returned' = returned
    /\ UNCHANGED <<nChat, chat_gen, variant, plain_calls, script, detected_language, stages, full_text,
                   chunk_size, max_chunk_length, token_limit, task_type, actual_limit,
                   fetched, texts, i, summaries, chunks, j, new_summaries, messages,
                   sent, prompt, lastOp, nSummarize, nMerge, nStream,
                   assistant_response, nChunks, map_log, threads>>

\* after the loop, any other number of summaries (none included): the merge call
\* (lines 194-198, 248-253)
TsMerge(resp) ==
    /\ pc = "ts_map"
    /\ i = Len(texts)
    /\ ~SingleSummary(summaries)
    /\ FinalCall(TsMergePrompt(summaries), resp)
    /\ nMerge' = nMerge + 1
    /\ UNCHANGED <<nChat, chat_gen, variant, plain_calls, detected_language, stages, full_text, chunk_size,
                   max_chunk_length, token_limit, task_type, actual_limit, fetched,
                   texts, i, summaries, chunks, j, new_summaries, lastOp, nSummarize,
                   nStream, map_log, threads>>

\* chunk_and_summarize has returned: chunk_and_summarize_stream is called with
\* the same transcript and chunk_size on a fresh TranscriptSummarizer whose
\* model gives the same responses
TsRunStreamVariant ==
    /\ pc = "ts_plain_done"
    /\ variant' = "stream_replay"
    /\ plain_calls' = sent
    /\ sent' = <<>>
    /\ messages' = <<Msg("system", TsSystemPrompt)>>
    /\ prompt' = ""
    /\ texts' = <<>>
    /\ i' = 0
    /\ summaries' = <<>>
    /\ nSummarize' = 0
    /\ nMerge' = 0
    /\ chat_gen' = NoDirect
    /\ pc' = "ts_start"
    /\ UNCHANGED <<nChat, returned, script, detected_language, stages, full_text, chunk_size,
                   max_chunk_length, token_limit, task_type, actual_limit, fetched,
                   chunks, j, new_summaries, lastOp, nStream, assistant_response,
                   nChunks, out, map_log, threads>>

-----------------------------------------------------------------------------
(* chat, chat_stream and reset_conversation called directly on the
   TranscriptSummarizer, around a run or while the generator of a run is
   suspended (src/transcript_llm.py:85-133) *)

\* a direct chat / chat_stream call is made on a history shorter than this
MaxTsHistory == 2

\* the argument of a direct chat / chat_stream call
TsContents == {"hi"}

\* content of the chunks of the model stream of a direct chat_stream call (an
\* empty content is yielded like any other)
TsFragments == {"", "fr"}

\* the thread is not inside chunk_and_summarize(_stream): the run has not
\* started, it has returned, or its generator is suspended at a yield or over
TsCanCall == pc \in {"ts_start", "ts_plain_done", "ts_streaming", "ts_stream_done"}

\* the variables a direct call leaves alone
ts_direct_rest == <<token_limit, texts, pc, i, summaries, chunks, j, new_summaries,
                    sent, prompt, lastOp, nSummarize, nMerge, nStream,
                    assistant_response, nChunks, out, threads, full_text, map_log,
                    task_type, actual_limit, fetched, max_chunk_length, chunk_size,
                    variant, returned, plain_calls, script, detected_language, stages>>

\* chat(user_input): the prompt is appended, then the reply unless the model
\* call raises   (lines 85-103)
TsChat(user_input, outcome) ==
    /\ TsCanCall
    /\ Len(messages) < MaxTsHistory
    /\ messages' = LET withUser == Append(messages, Msg("user", user_input))
                   IN  IF outcome = None THEN withUser
                       ELSE Append(withUser, Msg("assistant", outcome[1]))
    /\ UNCHANGED <<ts_direct_rest, nChat, chat_gen>>

\* reset_conversation()   (lines 129-133)
TsReset ==
    /\ TsCanCall
    /\ messages' = <<Msg("system", TsSystemPrompt)>>
    /\ UNCHANGED <<ts_direct_rest, nChat, chat_gen>>

\* chat_stream(user_input): the generator is created, no line of it has run
\* (line 105)
TsChatStream(user_input) ==
    /\ TsCanCall
    /\ Len(messages) < MaxTsHistory
    /\ chat_gen.at = "none"
    /\ chat_gen' = [at |-> "new", user_input |-> user_input,
                    assistant_response |-> "", n |-> 0]
    /\ UNCHANGED <<ts_direct_rest, nChat, messages>>

\* the history once the generator has started: its first next() appends the
\* prompt   (line 107)
TsDirectStarted ==
    IF chat_gen.at = "new"
    THEN Append(messages, Msg("user", chat_gen.user_input))
    ELSE messages

\* next() on the generator, the model stream has a chunk with content:
\* assistant_response += content; yield content   (lines 107-121)
TsDirectFragment(content) ==
    /\ TsCanCall
    /\ chat_gen.at \in {"new", "suspended"}
    /\ chat_gen.n < MaxPortChunks
    /\ messages' = TsDirectStarted
    /\ chat_gen' = [chat_gen EXCEPT !.at = "suspended",
                                    !.assistant_response = @ \o content,
                                    !.n = @ + 1]
    /\ UNCHANGED <<ts_direct_rest, nChat>>

\* next() on the generator, the model stream is over: the reply is appended and
\* the generator ends   (line 123)
TsDirectEnd ==
    /\ TsCanCall
    /\ chat_gen.at \in {"new", "suspended"}
    /\ messages' = Append(TsDirectStarted, Msg("assistant", chat_gen.assistant_response))
    /\ chat_gen' = NoDirect
    /\ UNCHANGED <<ts_direct_rest, nChat>>

\* next() on the generator, the model call or the stream raises: the error
\* message is yielded to the caller and nothing of the generator is left to run
\* (lines 125-127)
TsDirectFail ==
    /\ TsCanCall
    /\ chat_gen.at \in {"new", "suspended"}
    /\ messages' = TsDirectStarted
    /\ chat_gen' = NoDirect
    /\ UNCHANGED <<ts_direct_rest, nChat>>

\* the caller drops the generator before its first next() or closes it at the
\* yield of line 121
TsDirectClose ==
    /\ TsCanCall
    /\ chat_gen.at \in {"new", "suspended"}
    /\ chat_gen' = NoDirect
    /\ UNCHANGED <<ts_direct_rest, nChat, messages>>

NextTranscript ==
    \/ \E resp \in FinalChoices : TsShort(resp)
    \/ TsSplit
    \/ \E outcome \in MapChoices(i + 1) : TsMapStep(outcome)
    \/ TsReturnSingle
    \/ \E resp \in FinalChoices : TsMerge(resp)
    \/ TsStreamFragment
    \/ TsStreamEnd
    \/ TsStreamFail
    \/ TsStreamClose
    \/ TsRunStreamVariant
    \/ \E user_input \in TsContents, outcome \in {None, Some("re")} : TsChat(user_input, outcome)
    \/ TsReset
    \/ \E user_input \in TsContents : TsChatStream(user_input)
    \/ \E content \in TsFragments : TsDirectFragment(content)
    \/ TsDirectEnd
    \/ TsDirectFail
    \/ TsDirectClose

TranscriptSpec == InitTranscript /\ [][NextTranscript]_vars

-----------------------------------------------------------------------------
(* YouTubeSummarizer.get_summary and get_summary_stream
   (src/youtube_summarizer.py:369-524) *)

\* chunk_size=8000, the default of chunk_and_summarize_stream
\* (src/transcript_llm.py:200), which get_summary_stream does not override
DefaultChunkSize == 8000

\* the stages of get_summary_stream in the order of the code
StageOrder == <<"detect", "download", "convert", "transcribe", "clean", "summarize">>

\* language codes detect_video_language returns; 'auto' when it found none or
\* caught its own error (lines 210-223)
Languages == {"en", "zh", "auto"}

Digit == <<"0", "1", "2", "3", "4", "5", "6", "7", "8", "9">>

RECURSIVE IntStr(_)
\* str(n) of a natural number
IntStr(n) == IF n < 10 THEN Digit[n + 1] ELSE IntStr(n \div 10) \o Digit[(n % 10) + 1]

\* yield "處理失敗：無法識別 YouTube 影片 ID"   (line 450)
NoVideoIdMsg == "failed: cannot identify the YouTube video id"

\* yield f"影片 ID: {video_id}\n"   (line 453)
VideoIdMsg == "video id: VID\n"

\* the first yield of a stage (lines 460, 470, 480, 494, 504, 514)
StageStartMsg(stage, language) ==
    IF stage = "transcribe"
    THEN "running transcribe (language: " \o language \o ")...\n"
    ELSE IF stage = "summarize" THEN "running summarize...\n\n"
    ELSE "running " \o stage \o "...\n"

\* the yield after a stage succeeded (lines 462, 472, 486, 496, 506)
StageOkMsg(stage, language, transcript) ==
    IF stage = "detect" THEN "ok detect: " \o language \o "\n"
    ELSE IF stage = "clean" THEN "ok clean (" \o IntStr(Len(transcript)) \o " characters)\n\n"
    ELSE "ok " \o stage \o "\n"

\* yield "⚠ 語言偵測失敗，將使用自動偵測\n"   (line 466)
DetectFailedMsg == "warning: language detection failed, using auto\n"

\* yield f"\n處理失敗：{str(e)}"   (lines 475, 489, 499, 509)
StageFailMsg(e) == "\nfailed: " \o e

\* yield f"\n\n處理過程中發生未預期的錯誤，請稍後再試"   (line 524)
UnexpectedMsg == "\n\nunexpected error, try again later"

\* get_summary(url) or get_summary_stream(url) on a fresh YouTubeSummarizer
InitYoutube ==
    /\ nChat = 0
    /\ chat_gen = NoDirect
    /\ variant = "none"
    /\ returned = None
    /\ plain_calls = <<>>
    /\ script = [map |-> <<>>, final |-> <<>>]
    /\ detected_language = "none"
    /\ stages = <<>>
    /\ full_text = <<>>
    /\ chunk_size = 0
    /\ pc = "yt_start"
    /\ max_chunk_length = 0
    /\ token_limit = 0
    /\ task_type = "none"
    /\ actual_limit = 0
    /\ fetched = "none"
    /\ texts = <<>>
    /\ i = 0
    /\ summaries = <<>>
    /\ chunks = <<>>
    /\ j = 0
    /\ new_summaries = <<>>
    /\ messages = <<Msg("system", TsSystemPrompt)>>
    /\ sent = <<>>
    /\ prompt = ""
    /\ lastOp = "none"
    /\ nSummarize = 0
    /\ nMerge = 0
    /\ nStream = 0
    /\ assistant_response = ""
    /\ nChunks = 0
    /\ out = <<>>
    /\ map_log = <<>>
    /\ threads = NoThreads

\* the variables no stage before the summary writes
yt_rest == <<nChat, chat_gen, returned, plain_calls, script, chunk_size, max_chunk_length,
             token_limit, task_type, actual_limit, fetched, texts, i, summaries,
             chunks, j, new_summaries, messages, sent, prompt, lastOp, nSummarize,
             nMerge, nStream, assistant_response, nChunks, map_log, threads>>

\* the position of a stage in StageOrder
StageIndex(stage) == CHOOSE k \in DOMAIN StageOrder : StageOrder[k] = stage

\* where get_summary_stream is suspended before the start yield of a stage: at
\* the yield of the video id (line 453) or at the result yield of the stage
\* before
PrevYield(stage) ==
    IF stage = "detect" THEN "yt_y_id"
    ELSE "yt_y_end_" \o StageOrder[StageIndex(stage) - 1]

\* the generator of get_summary_stream is suspended at one of its yields
\* outside the summary stage
YtSuspended ==
    pc \in {"yt_y_id", "yt_y_fail"}
           \cup {"yt_y_start_" \o StageOrder[k] : k \in DOMAIN StageOrder}
           \cup {"yt_y_end_" \o StageOrder[k] : k \in DOMAIN StageOrder}

\* the outcome of the stage that was started last is recorded
SetLast(state) == [stages EXCEPT ![Len(stages)].state = state]

\* first next(): if not self.is_youtube_url(url): raise ValueError
\* (lines 443-444)
YtInvalidUrl ==
    /\ pc = "yt_start"
    /\ variant' = "stream"
    /\ pc' = "yt_raised"
    /\ UNCHANGED <<yt_rest, out, stages, detected_language, full_text>>

\* first next(): if not video_id: yield the failure message   (lines 448-450)
YtNoVideoId ==
    /\ pc = "yt_start"
    /\ variant' = "stream"
    /\ out' = Append(out, NoVideoIdMsg)
    /\ pc' = "yt_y_fail"
    /\ UNCHANGED <<yt_rest, stages, detected_language, full_text>>

\* first next(): the video id is yielded   (lines 447-453)
YtBegin ==
    /\ pc = "yt_start"
    /\ variant' = "stream"
    /\ out' = Append(out, VideoIdMsg)
    /\ pc' = "yt_y_id"
    /\ UNCHANGED <<yt_rest, stages, detected_language, full_text>>

\* next() after the video id: Config.ensure_output_dir() raises, the outer
\* except yields its message   (lines 456, 522-524)
YtOutputDirFails ==
    /\ pc = "yt_y_id"
    /\ out' = Append(out, UnexpectedMsg)
    /\ pc' = "yt_y_fail"
    /\ UNCHANGED <<yt_rest, variant, stages, detected_language, full_text>>

\* next() at the yield before a stage: the stage's try block is entered and its
\* start message is yielded; the stage itself has not run
\* (lines 456-460, 470, 480, 494, 504, 514)
YtStageStart(stage) ==
    /\ pc = PrevYield(stage)
    /\ stages' = Append(stages, [stage |-> stage, state |-> "started"])
    /\ out' = Append(out, StageStartMsg(stage, detected_language))
    /\ pc' = "yt_y_start_" \o stage
    /\ UNCHANGED <<yt_rest, variant, detected_language, full_text>>

\* next() at the start yield of step 1: detect_video_language returns a
\* language, which is yielded   (lines 461-462)
YtDetect(language) ==
    /\ pc = "yt_y_start_detect"
    /\ stages' = SetLast("ok")
    /\ detected_language' = language
    /\ out' = Append(out, StageOkMsg("detect", language, full_text))
    /\ pc' = "yt_y_end_detect"
    /\ UNCHANGED <<yt_rest, variant, full_text>>

\* next() at the start yield of step 1: detect_video_language raises:
\* detected_language = 'auto', the warning is yielded and the run goes on
\* (lines 463-466)
YtDetectFails ==
    /\ pc = "yt_y_start_detect"
    /\ stages' = SetLast("failed")
    /\ detected_language' = "auto"
    /\ out' = Append(out, DetectFailedMsg)
    /\ pc' = "yt_y_end_detect"
    /\ UNCHANGED <<yt_rest, variant, full_text>>

\* mutant: a failed stage yields its message and the run goes on
RunStage_GoesOn(stage, ok, transcript) ==
    /\ pc = "yt_y_start_" \o stage
    /\ stages' = SetLast(IF ok THEN "ok" ELSE "failed")
    /\ out' = Append(out, IF ok THEN StageOkMsg(stage, detected_language, transcript)
                                ELSE StageFailMsg(ExcText))
    /\ pc' = "yt_y_end_" \o stage

\* Steps 2-5, next() at the start yield: the stage runs;
\*     yield ok
\* except Exception as e: yield f"\n處理失敗：{str(e)}" (and return at the next())
\* (lines 471-476, 481-490, 495-500, 505-510)
RunStage(stage, ok, transcript) ==
    /\ pc = "yt_y_start_" \o stage
    /\ stages' = SetLast(IF ok THEN "ok" ELSE "failed")
    /\ out' = Append(out, IF ok THEN StageOkMsg(stage, detected_language, transcript)
                                ELSE StageFailMsg(ExcText))
    /\ pc' = IF ok THEN "yt_y_end_" \o stage ELSE "yt_y_fail"

\* Step 2: download_youtube_audio   (lines 471-476)
YtDownload(ok) ==
    /\ RunStage("download", ok, full_text)
    /\ UNCHANGED <<yt_rest, variant, detected_language, full_text>>

\* Step 3: convert_audio_format   (lines 481-490)
YtConvert(ok) ==
    /\ RunStage("convert", ok, full_text)
    /\ UNCHANGED <<yt_rest, variant, detected_language, full_text>>

\* Step 4: transcribe_audio(converted_audio_path, detected_language)   (lines 495-500)
YtTranscribe(ok) ==
    /\ RunStage("transcribe", ok, full_text)
    /\ UNCHANGED <<yt_rest, variant, detected_language, full_text>>

\* Step 5: transcript = self.clean_transcript(srt_path)   (lines 505-506)
YtClean(transcript) ==
    /\ RunStage("clean", TRUE, transcript)
    /\ full_text' = transcript
    /\ UNCHANGED <<yt_rest, variant, detected_language>>

\* Step 5: clean_transcript raises   (lines 507-510)
YtCleanFails ==
    /\ RunStage("clean", FALSE, full_text)
    /\ UNCHANGED <<yt_rest, variant, detected_language, full_text>>

\* Step 6, next() at its start yield: the for loop calls
\* self.transcript_summarizer.chunk_and_summarize_stream(transcript) and asks
\* for its first fragment   (lines 515-516)
YtSummarize ==
    /\ pc = "yt_y_start_summarize"
    /\ chunk_size' = DefaultChunkSize
    /\ pc' = "ts_start"
    /\ UNCHANGED <<nChat, chat_gen, variant, returned, plain_calls, script, detected_language,
                   stages, full_text, max_chunk_length, token_limit, task_type,
                   actual_limit, fetched, texts, i, summaries, chunks, j,
                   new_summaries, messages, sent, prompt, lastOp, nSummarize, nMerge,
                   nStream, assistant_response, nChunks, out, map_log, threads>>

\* next() at a failure yield: return, or the end of the generator
\* (lines 451, 476, 490, 500, 510, 524)
YtReturn ==
    /\ pc = "yt_y_fail"
    /\ pc' = "yt_done"
    /\ UNCHANGED <<yt_rest, variant, out, stages, detected_language, full_text>>

\* the consumer stops iterating: the generator is closed at the yield where it
\* is suspended and nothing after it runs
YtClose ==
    /\ YtSuspended
    /\ pc' = "yt_closed"
    /\ UNCHANGED <<yt_rest, variant, out, stages, detected_language, full_text>>

\* get_summary(url): the URL is no YouTube URL (lines 428-429), no video id is
\* found (lines 383-385) or Config.ensure_output_dir() raises (line 390): the
\* exception reaches the caller
YtFlowRaises ==
    /\ pc = "yt_start"
    /\ variant' = "plain"
    /\ pc' = "yt_raised"
    /\ UNCHANGED <<yt_rest, out, stages, detected_language, full_text>>

\* get_summary(url) -> youtube_summary_flow(url) up to step 1   (lines 428-391)
YtFlowBegin ==
    /\ pc = "yt_start"
    /\ variant' = "plain"
    /\ pc' = "yf_detect"
    /\ UNCHANGED <<yt_rest, out, stages, detected_language, full_text>>

\* steps 1-5 of youtube_summary_flow: the task returns and the flow goes on to
\* the next one, or it raises and the exception reaches the caller of
\* get_summary   (lines 393-409)
YtFlowStage(stage, ok, language, transcript) ==
    /\ stage # "summarize"
    /\ pc = "yf_" \o stage
    /\ stages' = Append(stages, [stage |-> stage, state |-> IF ok THEN "ok" ELSE "failed"])
    /\ detected_language' = IF stage = "detect" /\ ok THEN language ELSE detected_language
    /\ full_text' = IF stage = "clean" /\ ok THEN transcript ELSE full_text
    /\ pc' = IF ok THEN "yf_" \o StageOrder[StageIndex(stage) + 1] ELSE "yt_raised"
    /\ UNCHANGED <<yt_rest, variant, out>>

\* step 6 of youtube_summary_flow: summarize_transcript_task calls
\* self.transcript_summarizer.chunk_and_summarize(transcript)   (lines 412, 359)
YtFlowSummarize ==
    /\ pc = "yf_summarize"
    /\ stages' = Append(stages, [stage |-> "summarize", state |-> "started"])
    /\ chunk_size' = DefaultChunkSize
    /\ pc' = "ts_start"
    /\ UNCHANGED <<nChat, chat_gen, variant, returned, plain_calls, script, detected_language,
                   full_text, max_chunk_length, token_limit, task_type,
                   actual_limit, fetched, texts, i, summaries, chunks, j,
                   new_summaries, messages, sent, prompt, lastOp, nSummarize, nMerge,
                   nStream, assistant_response, nChunks, out, map_log, threads>>

\* chunk_and_summarize has returned: len(summary) raises on None and the task
\* raises "生成摘要時發生錯誤"; otherwise the summary is returned through the
\* flow and get_summary   (lines 361-367, 414-416, 431)
YtFlowReturn ==
    /\ pc = "ts_plain_done"
    /\ stages' = SetLast(IF returned = None THEN "failed" ELSE "ok")
    /\ pc' = IF returned = None THEN "yt_raised" ELSE "yt_done"
    /\ UNCHANGED <<yt_rest, variant, out, detected_language, full_text>>

\* the transcripts of the model are shorter than DefaultChunkSize: the summary
\* stage takes the direct path of chunk_and_summarize(_stream)
NextYoutube ==
    \/ YtInvalidUrl
    \/ YtNoVideoId
    \/ YtBegin
    \/ YtOutputDirFails
    \/ \E k \in DOMAIN StageOrder : YtStageStart(StageOrder[k])
    \/ \E language \in Languages : YtDetect(language)
    \/ YtDetectFails
    \/ \E ok \in BOOLEAN : YtDownload(ok)
    \/ \E ok \in BOOLEAN : YtConvert(ok)
    \/ \E ok \in BOOLEAN : YtTranscribe(ok)
    \/ \E transcript \in Transcripts : YtClean(transcript)
    \/ YtCleanFails
    \/ YtSummarize
    \/ YtReturn
    \/ YtClose
    \/ YtFlowRaises
    \/ YtFlowBegin
    \/ \E k \in DOMAIN StageOrder, ok \in BOOLEAN, language \in Languages,
          transcript \in Transcripts :
            YtFlowStage(StageOrder[k], ok, language, transcript)
    \/ YtFlowSummarize
    \/ YtFlowReturn
    \/ \E resp \in FinalChoices : TsShort(resp)
    \/ TsStreamFragment
    \/ TsStreamEnd
    \/ TsStreamFail
    \/ TsStreamClose

YoutubeSpec == InitYoutube /\ [][NextYoutube]_vars

-----------------------------------------------------------------------------
(* WebArticleSummarizer.get_recommended_token_limit and get_summary
   (src/html_summary.py:213-222, 354-392) *)

\* self.recommended_limits   (lines 28-33)
recommended_limits ==
    [short_summary |-> 1500, long_summary |-> 3000,
     detailed_analysis |-> 4000, academic_paper |-> 6000]

\* the task types a caller passes: the four known ones and an unknown one
TaskTypes == DOMAIN recommended_limits \cup {"unknown_task"}

\* base_limit = self.recommended_limits.get(task_type, 3000)   (line 215)
base_limit(tt) ==
    IF tt \in DOMAIN recommended_limits THEN recommended_limits[tt] ELSE 3000

\* get_recommended_token_limit(text_length, task_type)   (lines 217-222);
\* base_limit * 1.5 is a whole number for every base limit, and is written
\* here as (base_limit * 3) \div 2
get_recommended_token_limit(text_length, tt) ==
    IF text_length < 5000 THEN Min(base_limit(tt), 1500)
    ELSE IF text_length < 15000 THEN base_limit(tt)
    ELSE Min((base_limit(tt) * 3) \div 2, 6000)

\* mutant: actual_limit is the recommended limit alone
ActualLimit_Recommended(limit, text_length, tt) ==
    get_recommended_token_limit(text_length, tt)

\* actual_limit = min(self.token_limit, recommended_limit)   (lines 374-375)
ActualLimit(limit, text_length, tt) ==
    Min(limit, get_recommended_token_limit(text_length, tt))

\* values of token_limit given to the constructor: a small one, the default
\* (and the frontend's) 3000, and one above every recommended limit
TokenLimits == {2, 3000, 7000}

\* the state before a call of get_recommended_token_limit for a content of
\* text_length characters (held in i) and of the same call for one character
\* more
InitLimit ==
    /\ IdleTranscript
    /\ nChat = 0
    /\ chat_gen = NoDirect
    /\ token_limit \in TokenLimits
    /\ task_type \in TaskTypes
    /\ i \in 0..MaxTextLength
    /\ pc = "limit_call"
    /\ actual_limit = 0
    /\ fetched = "none"
    /\ max_chunk_length = 0
    /\ chunk_size = 0
    /\ full_text = <<>>
    /\ texts = <<>>
    /\ summaries = <<>>
    /\ chunks = <<>>
    /\ j = 0
    /\ new_summaries = <<>>
    /\ messages = <<Msg("system", SystemPrompt)>>
    /\ sent = <<>>
    /\ prompt = ""
    /\ lastOp = "none"
    /\ nSummarize = 0
    /\ nMerge = 0
    /\ nStream = 0
    /\ assistant_response = ""
    /\ nChunks = 0
    /\ out = <<>>
    /\ map_log = <<>>
    /\ threads = NoThreads

\* recommended_limit = get_recommended_token_limit(len(content), task_type) for
\* the two lengths (kept in chunks), actual_limit = min(...)   (lines 374-375)
CallRecommendedLimit ==
    /\ pc = "limit_call"
    /\ chunks' = <<get_recommended_token_limit(i, task_type),
                   get_recommended_token_limit(i + 1, task_type)>>
    /\ actual_limit' = ActualLimit(token_limit, i, task_type)
    /\ pc' = "limit_returned"
    /\ UNCHANGED <<nChat, chat_gen, yt_vars, max_chunk_length, chunk_size, token_limit, task_type, fetched, full_text, texts, i, summaries, j,
                   new_summaries, messages, sent, prompt, lastOp, nSummarize, nMerge,
                   nStream, assistant_response, nChunks, out, map_log, threads>>

NextLimit == CallRecommendedLimit

LimitSpec == InitLimit /\ [][NextLimit]_vars

\* a text of n letters without whitespace or period
Plain(n) == [k \in 1..n |-> "a"]

\* contents the extraction returns: a short one, one paragraph just over 1500
\* tokens and two paragraphs of 800 tokens
WebContents ==
    {Plain(7), Plain(4503), Plain(2400) \o ParagraphSep \o Plain(2400)}

\* yield f"無法獲取{file_type}內容" (line 364); only the PDF branch of
\* fetch_content returns an empty text, fetch_html_text raises instead
NoContentMsg == "cannot fetch the PDF content"

\* yield f"處理過程中發生錯誤: {str(e)}"   (line 392)
ProcessErrorMsg(e) == "error while processing: " \o e

\* a call of get_summary(url, task_type), relayed fragment by fragment by
\* process_url_with_fallback (src/frontend.py:55-56)
InitWeb ==
    /\ IdleTranscript
    /\ nChat = 0
    /\ chat_gen = NoDirect
    /\ token_limit \in TokenLimits
    /\ task_type \in TaskTypes
    /\ pc = "gs_start"
    /\ actual_limit = 0
    /\ fetched = "none"
    /\ max_chunk_length = 0
    /\ chunk_size = 0
    /\ full_text = <<>>
    /\ texts = <<>>
    /\ i = 0
    /\ summaries = <<>>
    /\ chunks = <<>>
    /\ j = 0
    /\ new_summaries = <<>>
    /\ messages = <<Msg("system", SystemPrompt)>>
    /\ sent = <<>>
    /\ prompt = ""
    /\ lastOp = "none"
    /\ nSummarize = 0
    /\ nMerge = 0
    /\ nStream = 0
    /\ assistant_response = ""
    /\ nChunks = 0
    /\ out = <<>>
    /\ map_log = <<>>
    /\ threads = NoThreads

\* fetch_content_sync raises: the except clause yields the error message
\* (lines 357-361, 391-392)
GsFetchRaises ==
    /\ pc = "gs_start"
    /\ fetched' = "raised"
    /\ out' = Append(out, ProcessErrorMsg(ExcText))
    /\ pc' = "Done"
    /\ UNCHANGED <<nChat, chat_gen, yt_vars, max_chunk_length, chunk_size, token_limit, task_type, actual_limit, full_text, texts, i, summaries,
                   chunks, j, new_summaries, messages, sent, prompt, lastOp, nSummarize,
                   nMerge, nStream, assistant_response, nChunks, map_log, threads>>

\* mutant: an empty content is handed on as the only chunk
GsFetchEmpty_NoCheck ==
    /\ pc = "gs_start"
    /\ fetched' = "empty"
    /\ texts' = <<"">>
    /\ pc' = "start"
    /\ UNCHANGED <<nChat, chat_gen, yt_vars, max_chunk_length, chunk_size, token_limit, task_type, actual_limit, full_text, i, summaries,
                   chunks, j, new_summaries, messages, sent, prompt, lastOp, nSummarize,
                   nMerge, nStream, assistant_response, nChunks, out, map_log, threads>>

\* content is empty: if not content: yield ...; return   (lines 361-365)
GsFetchEmpty ==
    /\ pc = "gs_start"
    /\ fetched' = "empty"
    /\ out' = Append(out, NoContentMsg)
    /\ pc' = "Done"
    /\ UNCHANGED <<nChat, chat_gen, yt_vars, max_chunk_length, chunk_size, token_limit, task_type, actual_limit, full_text, texts, i, summaries,
                   chunks, j, new_summaries, messages, sent, prompt, lastOp, nSummarize,
                   nMerge, nStream, assistant_response, nChunks, map_log, threads>>

\* content fetched: actual_limit, the split when total_tokens > actual_limit,
\* and the call of summarize_texts_stream(text_chunks)   (lines 361-388)
GsFetch(fetched_content) ==
    /\ pc = "gs_start"
    /\ fetched' = "ok"
    /\ full_text' = fetched_content
    /\ LET limit == ActualLimit(token_limit, Len(fetched_content), task_type)
           text_chunks ==
               IF count_tokens(fetched_content) > limit
               THEN split_text_by_tokens(fetched_content, limit)
               ELSE <<fetched_content>>
       IN  /\ actual_limit' = limit
           /\ texts' = [k \in 1..Len(text_chunks) |-> Str(text_chunks[k])]
    /\ pc' = "start"
    /\ UNCHANGED <<nChat, chat_gen, yt_vars, max_chunk_length, chunk_size, token_limit, task_type, i, summaries, chunks, j, new_summaries,
                   messages, sent, prompt, lastOp, nSummarize, nMerge, nStream,
                   assistant_response, nChunks, out, map_log, threads>>

NextWeb ==
    \/ GsFetchRaises
    \/ GsFetchEmpty
    \/ \E fetched_content \in WebContents : GsFetch(fetched_content)
    \/ Next

\* return "無法從 PDF 中提取文字內容"   (src/pdf_summary.py:119)
PdfNoTextMsg == "cannot extract text from the PDF"

\* error_msg = f"摘要過程中發生錯誤: {str(e)}"   (src/pdf_summary.py:149)
PdfErrorMsg(e) == "error while summarizing: " \o e

\* texts extract_text_from_pdf returns when the PDF has text
PdfTexts == SeqsUpTo(ChunkChars, MaxPdfTextLen) \ {<<>>}

\* a call of PDFSummarizer.get_summary(source)
InitPdfRun ==
    /\ IdleTranscript
    /\ nChat = 0
    /\ chat_gen = NoDirect
    /\ max_chunk_length \in 1..MaxChunkSize
    /\ pc = "pdf_start"
    /\ chunk_size = 0
    /\ token_limit = 0
    /\ task_type = "none"
    /\ actual_limit = 0
    /\ fetched = "none"
    /\ full_text = <<>>
    /\ texts = <<>>
    /\ i = 0
    /\ summaries = <<>>
    /\ chunks = <<>>
    /\ j = 0
    /\ new_summaries = <<>>
    /\ messages = <<Msg("system", SystemPrompt)>>
    /\ sent = <<>>
    /\ prompt = ""
    /\ lastOp = "none"
    /\ nSummarize = 0
    /\ nMerge = 0
    /\ nStream = 0
    /\ assistant_response = ""
    /\ nChunks = 0
    /\ out = <<>>
    /\ map_log = <<>>
    /\ threads = NoThreads

\* extract_text_from_pdf raises: the except clause returns the error message
\* (src/pdf_summary.py:114, 148-151)
PdfExtractRaises ==
    /\ pc = "pdf_start"
    /\ fetched' = "raised"
    /\ out' = <<PdfErrorMsg(ExcText)>>
    /\ pc' = "pdf_done"
    /\ UNCHANGED <<nChat, chat_gen, yt_vars, max_chunk_length, chunk_size, token_limit, task_type, actual_limit,
                   full_text, texts, i, summaries, chunks, j, new_summaries, messages,
                   sent, prompt, lastOp, nSummarize, nMerge, nStream,
                   assistant_response, nChunks, map_log, threads>>

\* no text extracted: if len(full_text) == 0: return ...   (src/pdf_summary.py:114-119)
PdfExtractEmpty ==
    /\ pc = "pdf_start"
    /\ fetched' = "empty"
    /\ out' = <<PdfNoTextMsg>>
    /\ pc' = "pdf_done"
    /\ UNCHANGED <<nChat, chat_gen, yt_vars, max_chunk_length, chunk_size, token_limit, task_type, actual_limit,
                   full_text, texts, i, summaries, chunks, j, new_summaries, messages,
                   sent, prompt, lastOp, nSummarize, nMerge, nStream,
                   assistant_response, nChunks, map_log, threads>>

\* text extracted: chunks = self.split_text(full_text), summaries = []
\* (src/pdf_summary.py:114-130); the chunks are kept in texts
PdfExtract(extracted) ==
    /\ pc = "pdf_start"
    /\ fetched' = "ok"
    /\ full_text' = extracted
    /\ LET cs == split_text(extracted, max_chunk_length)
       IN  texts' = [k \in 1..Len(cs) |-> Str(cs[k])]
    /\ pc' = "pdf_map"
    /\ UNCHANGED <<nChat, chat_gen, yt_vars, max_chunk_length, chunk_size, token_limit, task_type, actual_limit,
                   i, summaries, chunks, j, new_summaries, messages, sent, prompt,
                   lastOp, nSummarize, nMerge, nStream, assistant_response, nChunks,
                   out, map_log, threads>>

\* the smallest chunk length set_chunk_length accepts   (src/pdf_summary.py:159)
MinChunkLength == 500

\* lengths passed to set_chunk_length: below, at and above the minimum
SetLengths == {1, MinChunkLength - 1, MinChunkLength, MinChunkLength + 1}

\* set_chunk_length(length), called before or after get_summary:
\* self.max_chunk_length = max(500, length)   (src/pdf_summary.py:157-159)
PdfSetChunkLength(length) ==
    /\ pc \in {"pdf_start", "pdf_done"}
    /\ max_chunk_length' = IF length > MinChunkLength THEN length ELSE MinChunkLength
    /\ UNCHANGED <<nChat, chat_gen, yt_vars, chunk_size, token_limit, task_type, actual_limit,
                   fetched, full_text, texts, pc, i, summaries, chunks, j,
                   new_summaries, messages, sent, prompt, lastOp, nSummarize, nMerge,
                   nStream, assistant_response, nChunks, out, map_log, threads>>

\* reset_summarizer(), called before or after get_summary:
\* self.summarizer.reset_conversation()   (src/pdf_summary.py:153-155)
PdfResetSummarizer ==
    /\ pc \in {"pdf_start", "pdf_done"}
    /\ messages' = reset_conversation(messages)
    /\ UNCHANGED <<nChat, chat_gen, yt_vars, max_chunk_length, chunk_size, token_limit, task_type,
                   actual_limit, fetched, full_text, texts, pc, i, summaries, chunks,
                   j, new_summaries, sent, prompt, lastOp, nSummarize, nMerge,
                   nStream, assistant_response, nChunks, out, map_log, threads>>

NextPdfRun ==
    \/ \E length \in SetLengths : PdfSetChunkLength(length)
    \/ PdfResetSummarizer
    \/ PdfExtractRaises
    \/ PdfExtractEmpty
    \/ \E extracted \in PdfTexts : PdfExtract(extracted)
    \/ NextPdf

\* a get_summary run of the web driver or of the PDF driver
InitRun == InitWeb \/ InitPdfRun

NextRun == NextWeb \/ NextPdfRun

RunSpec == InitRun /\ [][NextRun]_vars

-----------------------------------------------------------------------------
(* Properties of summarize_texts_stream (Spec, FairSpec) *)

RECURSIVE Flatten(_)
\* the in-order concatenation of the groups
Flatten(groups) ==
    IF groups = <<>> THEN <<>> ELSE Head(groups) \o Flatten(Tail(groups))

\* the last reduce generation ran over every group and kept no summary
EmptyGeneration ==
    /\ pc \in {"final", "stream", "Done"}
    /\ chunks # <<>>
    /\ j = Len(chunks)
    /\ new_summaries = <<>>

\* the streamed merge was issued and ended with an exception: no reply was
\* appended to the history
StreamFailed ==
    /\ pc = "Done"
    /\ nStream = 1
    /\ Len(messages) = 2

\* C1: the reduce loop terminates for every input and every behaviour of the
\* summarization port: every run reaches Done.
C1_ReduceLoopTerminates == <>(pc = "Done")

\* C2: when a reduce generation leaves new_summaries empty, no further merge
\* call is issued (no final streamed merge of the previous generation's
\* summaries) and the run ends with a failure indicator as its only output.
C2_EmptyGenerationEndsInFailure ==
    EmptyGeneration =>
        /\ nStream = 0
        /\ lastOp = "merge"
        /\ (pc = "Done" => Len(out) = 1)

\* C3: an iteration of the reduce loop that is followed by another iteration
\* produced strictly fewer summaries than it consumed.
C3_IterationShrinksOrExits ==
    (/\ pc = "while"
     /\ chunks # <<>>
     /\ count_tokens_batch(summaries) > token_limit)
        => Len(summaries) < Len(Flatten(chunks))

\* C4: when the map step yields exactly one summary that fits the budget, the
\* output is that summary verbatim, summarize was called once for the one
\* text and no merge call, streamed or not, is issued.
C4_SingleSummaryVerbatim ==
    (/\ pc = "Done"
     /\ chunks = <<>>
     /\ Len(summaries) = 1
     /\ count_tokens_batch(summaries) <= token_limit)
        => /\ nMerge = 0
           /\ nStream = 0
           /\ get_summary_sync = summaries[1]
           /\ (Len(texts) = 1 => nSummarize = 1)

\* C6 (PortSpec): in one thread, after any sequence of summarize_content,
\* merge_summaries and merge_summaries_stream calls, successful or failed (and
\* of direct chat and chat_stream calls between them), the history a
\* summarize_content, merge_summaries or merge_summaries_stream call sends to
\* the model is exactly the system prompt followed by that call's own prompt.
C6_HistoryIsSystemPlusOwnPrompt ==
    lastOp \in {"summarize", "merge", "merge_stream"} =>
        sent = <<Msg("system", SystemPrompt), Msg("user", prompt)>>

\* C6 witness: a merge_summaries_stream generator is suspended at a yield after
\* a fragment; summarize_content is called meanwhile and sends the system
\* prompt and its own prompt
C6_Witness ==
    /\ Suspended
    /\ lastOp = "summarize"
    /\ nStream = 1
    /\ out # <<>>
    /\ sent = <<Msg("system", SystemPrompt), Msg("user", prompt)>>

\* C7: when the model stream fails after k >= 0 fragments, one further
\* fragment carries the error message, nothing follows it, and the result
\* get_summary_sync accumulates is the error message alone.
C7_StreamErrorReplacesPartial ==
    StreamFailed =>
        /\ out[Len(out)] = StreamError(ExcText)
        /\ \A k \in 1..(Len(out) - 1) : out[k] \in Fragments
        /\ get_summary_sync = StreamError(ExcText)

\* C8 as stated: no fragment is emitted while a map or intermediate merge
\* call is still to come, and every run executes exactly one merge call, the
\* last port call, as a streamed operation.
C8_ExactlyOneStreamedMerge ==
    /\ out # <<>> => pc \in {"stream", "Done"}
    /\ pc = "Done" => (nStream = 1 /\ lastOp = "merge_stream")

\* C8 amended: no fragment is emitted while a map or intermediate merge call
\* is still to come; at most one merge call per run is streamed and it is the
\* last port call; a finished run has streamed exactly one merge call when the
\* map step kept at least one summary and none otherwise.
C8_OnlyFinalMergeStreamed ==
    /\ out # <<>> => pc \in {"stream", "Done"}
    /\ nStream <= 1
    /\ nStream = 1 => lastOp = "merge_stream"
    /\ pc = "Done" => (nStream = 1 <=> summaries # <<>>)

\* C8 witness: a finished run with two map calls, intermediate merge calls and
\* a streamed final merge that emitted fragments
C8_Witness ==
    /\ pc = "Done"
    /\ nSummarize = 2
    /\ nMerge >= 1
    /\ nStream = 1
    /\ Len(out) >= 2

-----------------------------------------------------------------------------
(* Properties of concurrent requests (ConcSpec) *)

\* C5: no model call of one request carries a prompt or a reply of the other
\* request: what each call sends is the system prompt and its own prompt.
C5_NoContextLeak ==
    \A t \in DOMAIN threads :
        threads[t].sent # <<>> =>
            threads[t].sent = <<Msg("system", SystemPrompt),
                                Msg("user", SummarizePrompt(ContentOf(t)))>>

-----------------------------------------------------------------------------
(* Properties of split_texts_by_tokens (GroupSpec) *)

\* C9: the groups, concatenated in order, are the input list, and no group
\* is empty.
C9_GroupsFlattenToInput ==
    pc = "returned" =>
        /\ Flatten(chunks) = texts
        /\ \A g \in 1..Len(chunks) : chunks[g] # <<>>

\* C9 witness: a call that returned several groups, one of them with several texts
C9_Witness ==
    /\ pc = "returned"
    /\ Len(chunks) >= 2
    /\ \E g \in 1..Len(chunks) : Len(chunks[g]) >= 2

\* C10: greedy in-order grouping: a group is closed only when the next text
\* would not fit; every group of two or more texts fits the budget; a text
\* whose own estimate exceeds the budget is alone in its group.
C10_GreedyGrouping ==
    pc = "returned" =>
        /\ \A g \in 2..Len(chunks) :
               count_tokens_batch(chunks[g - 1]) + count_tokens(chunks[g][1]) > token_limit
        /\ \A g \in 1..Len(chunks) :
               Len(chunks[g]) >= 2 => count_tokens_batch(chunks[g]) <= token_limit
        /\ \A g \in 1..Len(chunks) : \A k \in 1..Len(chunks[g]) :
               count_tokens(chunks[g][k]) > token_limit => Len(chunks[g]) = 1

\* C10 witness: an over-budget text in the middle, alone between a group of
\* two texts and a following group
C10_Witness ==
    /\ pc = "returned"
    /\ Len(chunks) = 3
    /\ Len(chunks[1]) = 2
    /\ count_tokens(chunks[2][1]) > token_limit
    /\ count_tokens_batch(chunks[1]) > 0

-----------------------------------------------------------------------------
(* Properties of split_text_by_tokens (SplitSpec) *)

\* the characters of str that are not whitespace, in order
NonSpace(str) == SelectSeq(str, LAMBDA c : ~IsSpace(c))

\* the letters of str, in order
Letters(str) == SelectSeq(str, LAMBDA c : ~IsSpace(c) /\ c # ".")

RECURSIVE JoinSeqs(_, _)
\* sep.join(strs) on sequences of characters
JoinSeqs(sep, strs) ==
    IF strs = <<>> THEN <<>>
    ELSE IF Len(strs) = 1 THEN strs[1]
    ELSE strs[1] \o sep \o JoinSeqs(sep, Tail(strs))

\* the paragraphs of str that are not empty once stripped, stripped
ParagraphsOf(str) ==
    LET raw == str_split(str, ParagraphSep)
        kept == SelectSeq(raw, LAMBDA q : strip(q) # <<>>)
    IN  [k \in 1..Len(kept) |-> strip(kept[k])]

\* every sentence the splitter can form from a paragraph of str
SentenceSet(str) ==
    UNION {{Sentences(q)[k] : k \in 1..Len(Sentences(q))} :
             q \in {ParagraphsOf(str)[n] : n \in 1..Len(ParagraphsOf(str))}}

\* C11: the chunks, concatenated, hold exactly the non-whitespace characters
\* of the text in their order: none dropped, duplicated or added.
C11_ChunksReconstructText ==
    pc = "split_returned" => NonSpace(Flatten(chunks)) = NonSpace(full_text)

\* C12: no chunk is empty or whitespace-only, and the trailing accumulated
\* chunk is flushed at the end of the input: every letter of the text is in
\* the chunks.
C12_NoEmptyChunkAndFlush ==
    pc = "split_returned" =>
        /\ \A k \in 1..Len(chunks) : chunks[k] # <<>> /\ strip(chunks[k]) = chunks[k]
        /\ Letters(Flatten(chunks)) = Letters(full_text)

\* C12 witness: a text over the budget with an empty paragraph and a space,
\* split into several chunks, the last one holding the text's trailing
\* letters
C12_Witness ==
    /\ pc = "split_returned"
    /\ \E k \in DOMAIN full_text : IsSpace(full_text[k]) /\ full_text[k] # "\n"
    /\ count_tokens(full_text) > token_limit
    /\ Len(ParagraphsOf(full_text)) < Len(str_split(full_text, ParagraphSep))
    /\ Len(chunks) >= 2
    /\ Letters(chunks[Len(chunks)]) # <<>>
    /\ full_text[Len(full_text)] = "a"

\* C13: every chunk, estimated as emitted with its separators, fits the
\* budget, except a chunk that is one sentence over the budget by itself.
C13_ChunksFitBudget ==
    pc = "split_returned" =>
        \A k \in 1..Len(chunks) :
            \/ count_tokens(chunks[k]) <= token_limit
            \/ chunks[k] \in SentenceSet(full_text)

\* C14: three paragraphs, each within the budget, the whole text over it:
\* 2 or 3 chunks, never 1.
C14_ThreeParagraphsSplit ==
    (/\ pc = "split_returned"
     /\ Len(str_split(full_text, ParagraphSep)) = 3
     /\ Len(ParagraphsOf(full_text)) = 3
     /\ \A k \in 1..3 : count_tokens(ParagraphsOf(full_text)[k]) <= token_limit
     /\ count_tokens(full_text) > token_limit)
        => Len(chunks) \in {2, 3}

\* C15: one paragraph over the budget made of 4 sentences, each within the
\* budget: at least 2 chunks, each a join of whole consecutive sentences.
C15_FourSentencesSplit ==
    (/\ pc = "split_returned"
     /\ Len(str_split(full_text, ParagraphSep)) = 1
     /\ count_tokens(strip(full_text)) > token_limit
     /\ Len(Sentences(strip(full_text))) = 4
     /\ \A k \in 1..4 : count_tokens(Sentences(strip(full_text))[k]) <= token_limit)
        => /\ Len(chunks) >= 2
           /\ \A k \in 1..Len(chunks) :
                  \E a \in 1..4 : \E b \in a..4 :
                      chunks[k] = JoinSeqs(Space, SubSeq(Sentences(strip(full_text)), a, b))

\* C16 as stated: a text within the budget comes back as exactly one chunk,
\* the text with leading and trailing whitespace removed.
C16_OneChunkIsTrimmedInput ==
    (pc = "split_returned" /\ count_tokens(full_text) <= token_limit)
        => chunks = <<strip(full_text)>>

\* C16 amended: a text within the budget comes back as no chunk when it holds
\* no non-whitespace character, and otherwise as exactly one chunk: its
\* non-empty paragraphs, each stripped, joined by "\n\n".
C16_OneChunkOfJoinedParagraphs ==
    (pc = "split_returned" /\ count_tokens(full_text) <= token_limit)
        => chunks = IF ParagraphsOf(full_text) = <<>> THEN <<>>
                    ELSE <<JoinSeqs(ParagraphSep, ParagraphsOf(full_text))>>

\* C16 witness: a text with a space, within the budget, whose two paragraphs
\* come back as one chunk that differs from the trimmed text
C16_Witness ==
    /\ pc = "split_returned"
    /\ \E k \in DOMAIN full_text : IsSpace(full_text[k]) /\ full_text[k] # "\n"
    /\ count_tokens(full_text) <= token_limit
    /\ Len(ParagraphsOf(full_text)) = 2
    /\ Len(chunks) = 1
    /\ chunks[1] # strip(full_text)

-----------------------------------------------------------------------------
(* Properties of the reduction of 10 summaries (ScenarioSpec, FairScenarioSpec) *)

\* the sizes of the groups
GroupSizes(groups) == [k \in 1..Len(groups) |-> Len(groups[k])]

\* C17: 10 summaries of equal estimate, a budget that fits 3 of them but not
\* 4: the groups are of sizes 3,3,3,1 in input order, the merge step leaves at
\* most 4 summaries, and the run keeps reducing until it ends with its output.
C17_TenSummariesReduceToOne ==
    /\ [](pc = "reduce" /\ Len(summaries) = 10
            => GroupSizes(chunks) = <<3, 3, 3, 1>> /\ Flatten(chunks) = summaries)
    /\ [](Len(summaries) = 10 \/ Len(summaries) <= 4)
    /\ <>(pc = "Done")

-----------------------------------------------------------------------------
(* Properties of the merge step (Spec) *)

\* C18: a pass of the reduce loop over a group of exactly one summary puts
\* that summary unchanged into new_summaries and makes no port call.
C18_SingletonGroupPassedThrough ==
    [][(pc = "reduce" /\ j < Len(chunks) /\ Len(chunks[j + 1]) = 1 /\ j' = j + 1)
          => /\ new_summaries' = Append(new_summaries, chunks[j + 1][1])
             /\ nMerge' = nMerge
             /\ messages' = messages]_vars

-----------------------------------------------------------------------------
(* Properties of the map step of both drivers (DriverSpec) *)

\* the non-empty results of the map calls, in call order
KeptResults(log) ==
    LET ok == SelectSeq(log, LAMBDA e : Truthy(e.ret))
    IN  [k \in 1..Len(ok) |-> ok[k].ret[1]]

\* the map loop is running or has just ended
InMap == pc \in {"map", "pdf_map"}

\* the run has ended
Ended == pc \in {"Done", "pdf_done"}

\* every map call of an ended run over some chunk came back empty
AllMapCallsFailed ==
    /\ texts # <<>>
    /\ Len(map_log) = Len(texts)
    /\ \A k \in 1..Len(map_log) : ~Truthy(map_log[k].ret)

\* the failure message of the driver that ran
MapFailureMsg == IF pc = "pdf_done" THEN PdfNoSummaryMsg ELSE NoSummaryMsg

\* C19: the map step has called summarize once for each chunk so far, in chunk
\* order, and summaries is the subsequence of the non-empty results in that
\* order; a run that ended has tried every chunk.
C19_MapKeepsNonEmptyInOrder ==
    /\ Len(map_log) = i
    /\ nSummarize = i
    /\ i <= Len(texts)
    /\ \A k \in 1..Len(map_log) : map_log[k].content = texts[k]
    /\ InMap => summaries = KeptResults(map_log)
    /\ Ended => Len(map_log) = Len(texts)

\* C19 witness: the PDF map loop over three chunks has ended, the call for the
\* second chunk came back empty and the two others are kept in order
C19_Witness ==
    /\ pc = "pdf_map"
    /\ Len(texts) = 3
    /\ i = 3
    /\ Truthy(map_log[1].ret)
    /\ ~Truthy(map_log[2].ret)
    /\ Truthy(map_log[3].ret)
    /\ map_log[1].ret # map_log[3].ret
    /\ summaries = <<map_log[1].ret[1], map_log[3].ret[1]>>

\* C20: a run whose map calls all came back empty ends with the failure
\* message as its only result and without any merge call; a run with at least
\* one non-empty map result does not end with that message.
C20_AllFailedEndsInFailure ==
    (Ended /\ texts # <<>>) =>
        IF AllMapCallsFailed
        THEN /\ out = <<MapFailureMsg>>
             /\ nMerge = 0
             /\ nStream = 0
             /\ lastOp = "summarize"
        ELSE out = <<>> \/ out[Len(out)] # MapFailureMsg

\* C20 witness: a web run over two texts ended after one call raised and the
\* other answered with an empty string
C20_Witness ==
    /\ pc = "Done"
    /\ Len(texts) = 2
    /\ AllMapCallsFailed
    /\ map_log[1].ret = None
    /\ map_log[2].ret = Some("")
    /\ out = <<NoSummaryMsg>>

-----------------------------------------------------------------------------
(* Properties of the final merge of summarize_texts_stream (Spec) *)

\* C26: when the final streamed merge has been issued, the summaries handed
\* to it have a total estimate within the token budget.
C26_FinalMergeFitsBudget ==
    pc = "stream" => count_tokens_batch(summaries) <= token_limit

-----------------------------------------------------------------------------
(* Properties of get_recommended_token_limit (LimitSpec) and of the budget of a
   get_summary run (RunSpec) *)

\* C24: the recommended limit is at most 1500 for a content shorter than 5000
\* characters, never above 6000, and does not decrease when the content grows
\* by a character; the budget used, min(token_limit, recommended), never
\* exceeds token_limit.
C24_RecommendedLimitBounded ==
    pc = "limit_returned" =>
        /\ i < 5000 => chunks[1] <= 1500
        /\ chunks[1] <= 6000
        /\ chunks[1] <= chunks[2]
        /\ actual_limit <= token_limit

\* C24 witness: a detailed analysis of a content of 14999 characters, at the
\* step from the plain base limit to the relaxed one, with a token_limit above both
C24_Witness ==
    /\ pc = "limit_returned"
    /\ task_type = "detailed_analysis"
    /\ i = 14999
    /\ token_limit = 7000
    /\ chunks = <<4000, 6000>>
    /\ actual_limit = 4000

\* C21: in a get_summary run the budget the reduction loop compares with and
\* groups by (self.token_limit) is the budget the content was split with
\* (actual_limit).
C21_SingleBudgetThroughout ==
    (fetched = "ok" /\ pc \in {"while", "reduce"}) => token_limit = actual_limit

-----------------------------------------------------------------------------
(* Properties of the PDF and transcript chunkers (ChunkSpec) *)

\* C27: neither PDFSummarizer.split_text nor the word-accumulation loop of the
\* transcript driver puts an empty string in the chunk sequence.
C27_ChunkersGiveNoEmptyChunk ==
    pc \in {"pdf_split_returned", "ts_chunk_returned"} =>
        \A k \in 1..Len(chunks) : chunks[k] # <<>>

-----------------------------------------------------------------------------
(* Properties of a failed extraction (RunSpec) *)

\* the message a run ends with when its extraction raised or gave no text
FetchFailureMsg ==
    IF pc = "pdf_done"
    THEN (IF fetched = "raised" THEN PdfErrorMsg(ExcText) ELSE PdfNoTextMsg)
    ELSE (IF fetched = "raised" THEN ProcessErrorMsg(ExcText) ELSE NoContentMsg)

\* C22: when the extraction raises or returns an empty text, the web and the
\* PDF get_summary end with one failure message, without any split, summarize
\* or merge call; the message for an empty text differs from the one for an
\* extraction error.
C22_FailedExtractionEndsRun ==
    fetched \in {"raised", "empty"} =>
        /\ pc \in {"Done", "pdf_done"}
        /\ out = <<FetchFailureMsg>>
        /\ texts = <<>> /\ chunks = <<>> /\ map_log = <<>>
        /\ nSummarize = 0 /\ nMerge = 0 /\ nStream = 0
        /\ messages = <<Msg("system", SystemPrompt)>> /\ sent = <<>>
        /\ NoContentMsg # ProcessErrorMsg(ExcText)
        /\ PdfNoTextMsg # PdfErrorMsg(ExcText)

\* C22 witness: a PDF run that ended because no text was extracted
C22_Witness ==
    /\ pc = "pdf_done"
    /\ fetched = "empty"
    /\ out = <<PdfNoTextMsg>>
    /\ nSummarize = 0

\* C23: when get_summary's fetch raises, the run ends after exactly one
\* summarize call (generate_simple_summary of the fallback branch) and no merge.
C23_FetchFailureFallsBack ==
    (fetched = "raised" /\ pc = "Done") =>
        /\ nSummarize = 1
        /\ lastOp = "summarize"
        /\ nMerge = 0
        /\ nStream = 0

-----------------------------------------------------------------------------
(* Properties of the transcript driver (TranscriptSpec) *)

\* the consumer took every fragment of the stream variant: the single summary,
\* or every fragment of the last call up to the end of the stream or to the
\* error message
StreamExhausted ==
    \/ script.final = <<>>
    \/ /\ script.final # <<>>
       /\ nChunks = Len(script.final[1].frags)
       /\ IF script.final[1].fails
          THEN out # <<>> /\ out[Len(out)] = TsStreamError(ExcText)
          ELSE messages[Len(messages)].role = "assistant"

\* C25: when chunk_and_summarize_stream has run to its end on the transcript, the chunk
\* size and the model responses of a run of chunk_and_summarize, the
\* concatenation of its fragments is the value chunk_and_summarize returned and
\* it sent the same prompts in the same order.
C25_StreamConcatEqualsPlain ==
    (pc = "ts_stream_done" /\ variant = "stream_replay" /\ StreamExhausted) =>
        /\ returned = Some(JoinWith("", out))
        /\ sent = plain_calls

\* C28: a run that chunked the transcript and kept no chunk summary ends
\* without a merge call.
C28_NoMergeOfNoSummaries ==
    (pc \in {"ts_plain_done", "ts_stream_done"} /\ texts # <<>> /\ summaries = <<>>) =>
        nMerge = 0

-----------------------------------------------------------------------------
(* Properties of YouTubeSummarizer.get_summary_stream (YoutubeSpec) *)

\* a stage other than the language detection failed
FailedStage(k) == stages[k].stage # "detect" /\ stages[k].state = "failed"

\* a stage after which the run goes on: it succeeded, or it is the language
\* detection and failed
PassedStage(k) ==
    \/ stages[k].state = "ok"
    \/ stages[k].stage = "detect" /\ stages[k].state = "failed"

\* C29: in get_summary_stream the stages start in the order detect, download,
\* convert, transcribe, clean, summarize, each after the previous one succeeded
\* (or after the language detection failed); when download, convert,
\* transcribe or clean fails no later stage is started, the failure message is
\* the last fragment, the generator is at that yield or over and no prompt was
\* sent to the model; when the language detection fails the language is
\* 'auto'.
C29_StagesInOrder ==
    variant = "stream" =>
        /\ Len(stages) <= Len(StageOrder)
        /\ \A k \in DOMAIN stages : stages[k].stage = StageOrder[k]
        /\ \A k \in DOMAIN stages : k < Len(stages) => PassedStage(k)
        /\ \A k \in DOMAIN stages :
              FailedStage(k) =>
                  /\ pc \in {"yt_y_fail", "yt_done", "yt_closed"}
                  /\ out[Len(out)] = StageFailMsg(ExcText)
                  /\ sent = <<>>
                  /\ nSummarize = 0
        /\ (stages # <<>> /\ stages[1].state = "failed") => detected_language = "auto"
        /\ sent # <<>> =>
              (Len(stages) = Len(StageOrder) /\ \A k \in DOMAIN stages : ~FailedStage(k))

\* C29 witness: the language detection failed, the run went on with 'auto',
\* the transcription failed and the generator ended after its failure message
C29_Witness ==
    /\ variant = "stream"
    /\ pc = "yt_done"
    /\ Len(stages) = 4
    /\ stages[1].state = "failed"
    /\ stages[4].state = "failed"
    /\ detected_language = "auto"
    /\ out[Len(out)] = StageFailMsg(ExcText)

====
